---- MODULE Spec2Model ----
(***************************************************************************)
(* Model of the list editing core of roosterjs:                            *)
(*   - deleteEmptyList            (content-model-core, deleteEmptyList.ts) *)
(*   - setModelListStartNumber    (content-model-api)                      *)
(*   - getListStyleType           (content-model-plugins, auto format)     *)
(*   - ListFeatures               (legacy edit features and their dispatch) *)
(* The content model is an object graph; it is modelled as a heap of nodes *)
(* so that object identity (Array.indexOf) is kept.                        *)
(***************************************************************************)
EXTENDS Integers, Sequences, FiniteSets, TLC

\* ------------------------------------------------------------------------
\* Bounds
\* ------------------------------------------------------------------------
MaxValue == 2          \* start numbers passed to setModelListStartNumber

\* ------------------------------------------------------------------------
\* The heap of content model nodes
\* ------------------------------------------------------------------------
Undefined == "undefined"

Nodes == {"root",      \* the ContentModelDocument
          "wrap",      \* an optional block group around the list
          "prev",      \* the block before the list item
          "item",      \* the list item
          "next",      \* the block after the list item
          "prevPara",  \* paragraph of prev when prev is a block group
          "itemPara",  \* paragraph inside the list item
          "inner",     \* optional FormatContainer inside the list item
          "nextPara"}  \* paragraph of next when next is a block group

VARIABLES
    blockType,      \* node -> "Paragraph" | "BlockGroup" | "Divider" | "Table" | "Entity" | "Absent"
    blockGroupType, \* node -> "Document" | "ListItem" | "FormatContainer" | "None"
    blocks,         \* node -> sequence of child nodes (block groups)
    segments,       \* node -> sequence of segments (paragraphs)
    isSelected,     \* node -> BOOLEAN, the isSelected flag of a Divider
    levels,         \* node -> sequence of ContentModelListLevel (list items)
    call            \* the last API call: operation, arguments, result

modelVars == <<blockType, blockGroupType, blocks, segments, isSelected, levels>>

\* The editor the list features run in
VARIABLES
    settings,       \* the features that are enabled, the experimental features
    ed,             \* what the editor's queries return: cursor, selection, blocks
    ev,             \* the PluginKeyboardEvent being handled, with its cache
    phase,          \* where the handling of the event is
    idx,            \* index of the feature whose predicate is evaluated next
    executed,       \* the features whose handleEvent ran for this event
    log,            \* the editor API calls of this event's handlers
    queue,          \* the callbacks deferred with runAsync
    mutations,      \* number of content changes applied since the event began
    commits         \* the chain commits that ran: their chains, the content they saw

editorVars == <<settings, ed, ev, phase, idx, executed, log, queue, mutations, commits>>

vars == <<blockType, blockGroupType, blocks, segments, isSelected, levels, call,
          settings, ed, ev, phase, idx, executed, log, queue, mutations, commits>>

\* Segments
Br == [segmentType |-> "Br", isSelected |-> FALSE, text |-> <<>>]
Marker == [segmentType |-> "SelectionMarker", isSelected |-> TRUE, text |-> <<>>]
Text(t) == [segmentType |-> "Text", isSelected |-> FALSE, text |-> t]   \* t: sequence of characters
SelText(t) == [segmentType |-> "Text", isSelected |-> TRUE, text |-> t]
Entity == [segmentType |-> "Entity", isSelected |-> FALSE, text |-> <<>>]

\* List levels: format.listStyleType, format.startNumberOverride (0 = not
\* set) and the orderedStyleType of the list metadata (0 = not set)
Level(t) == [listType |-> t, listStyleType |-> 0, startNumberOverride |-> 0,
             orderedStyleType |-> 0]

\* JavaScript array access: a[i] with i out of range is undefined
At(s, i) == IF i >= 0 /\ i < Len(s) THEN s[i + 1] ELSE Undefined

\* Array.prototype.indexOf on an array of object references, 0-based
IndexOf(s, x) ==
    IF \E i \in 1..Len(s) : s[i] = x
    THEN (CHOOSE i \in 1..Len(s) : s[i] = x /\ \A j \in 1..(i - 1) : s[j] # x) - 1
    ELSE -1

Range(s) == {s[i] : i \in 1..Len(s)}

\* ------------------------------------------------------------------------
\* Tree navigation
\* ------------------------------------------------------------------------
IsGroup(n) == n # Undefined /\ blockType[n] = "BlockGroup"

HasParent(n) == \E p \in Nodes : IsGroup(p) /\ n \in Range(blocks[p])
Parent(n) == CHOOSE p \in Nodes : IsGroup(p) /\ n \in Range(blocks[p])

\* The path of block groups from the one holding n up to the document
RECURSIVE PathOf(_)
PathOf(n) == IF HasParent(n) THEN <<Parent(n)>> \o PathOf(Parent(n)) ELSE <<>>

\* Paragraphs below n, in document order
RECURSIVE Paragraphs(_)
RECURSIVE ParagraphsOf(_)
Paragraphs(n) ==
    IF blockType[n] = "Paragraph" THEN <<n>>
    ELSE IF blockType[n] = "BlockGroup" THEN ParagraphsOf(blocks[n])
    ELSE <<>>
ParagraphsOf(s) ==
    IF s = <<>> THEN <<>> ELSE Paragraphs(Head(s)) \o ParagraphsOf(Tail(s))

\* ------------------------------------------------------------------------
\* Selection queries of the content model
\* ------------------------------------------------------------------------
SomeSelected(segs) == \E i \in 1..Len(segs) : segs[i].isSelected

\* hasSelectionInBlock / hasSelectionInBlockGroup
RECURSIVE hasSelectionInBlock(_)
hasSelectionInBlockGroup(g) ==
    \E i \in 1..Len(blocks[g]) : hasSelectionInBlock(blocks[g][i])
hasSelectionInBlock(b) ==
    IF blockType[b] = "Paragraph" THEN SomeSelected(segments[b])
    ELSE IF blockType[b] = "BlockGroup" THEN hasSelectionInBlockGroup(b)
    ELSE isSelected[b]

\* getClosestAncestorBlockGroupIndex(path, [type]): the 0-based index of the
\* first group of the path (closest first) that has the type, or -1
getClosestAncestorBlockGroupIndex(path, type) ==
    IF \E i \in 1..Len(path) : blockGroupType[path[i]] = type
    THEN (CHOOSE i \in 1..Len(path) :
              /\ blockGroupType[path[i]] = type
              /\ \A j \in 1..(i - 1) : blockGroupType[path[j]] # type) - 1
    ELSE -1

\* The paragraphs with a selected segment, in document order
SelectedParagraphs ==
    SelectSeq(Paragraphs("root"), LAMBDA p : SomeSelected(segments[p]))

\* getOperationalBlocks(model, ['ListItem'], ...) for one selected block: the
\* closest ListItem on its path when there is one, else the block itself
OperationalBlock(b) ==
    LET path == PathOf(b)
        index == getClosestAncestorBlockGroupIndex(path, "ListItem")
    IN  IF index >= 0
        THEN [block |-> At(path, index), parent |-> At(path, index + 1)]
        ELSE [block |-> b, parent |-> At(path, 0)]

getOperationalBlocks ==
    [i \in 1..Len(SelectedParagraphs) |-> OperationalBlock(SelectedParagraphs[i])]

\* getFirstSelectedListItem(model)
getFirstSelectedListItem ==
    LET ops == SelectSeq(getOperationalBlocks,
                         LAMBDA r : blockGroupType[r.block] = "ListItem")
    IN  IF ops = <<>> THEN Undefined ELSE ops[1].block

\* ------------------------------------------------------------------------
\* deleteEmptyList.ts
\* ------------------------------------------------------------------------
RECURSIVE isEmptyBlock(_)

\* (mutant) only a paragraph or a block group can be empty
isEmptyBlockOfContent(block) ==
    IF block # Undefined /\ blockType[block] = "Paragraph"
    THEN \A i \in 1..Len(segments[block]) :
            /\ segments[block][i].segmentType # "SelectionMarker"
            /\ segments[block][i].segmentType = "Br"
    ELSE IF block # Undefined /\ blockType[block] = "BlockGroup"
    THEN \A i \in 1..Len(blocks[block]) : isEmptyBlock(blocks[block][i])
    ELSE FALSE

\* (mutant) Array.some in place of Array.every for the segments
isEmptyBlockSome(block) ==
    IF block # Undefined /\ blockType[block] = "Paragraph"
    THEN \E i \in 1..Len(segments[block]) :
            /\ segments[block][i].segmentType # "SelectionMarker"
            /\ segments[block][i].segmentType = "Br"
    ELSE IF block # Undefined /\ blockType[block] = "BlockGroup"
    THEN \A i \in 1..Len(blocks[block]) : isEmptyBlock(blocks[block][i])
    ELSE block # Undefined

isEmptyBlock(block) ==
    IF block # Undefined /\ blockType[block] = "Paragraph"
    THEN \A i \in 1..Len(segments[block]) :
            /\ segments[block][i].segmentType # "SelectionMarker"
            /\ segments[block][i].segmentType = "Br"
    ELSE IF block # Undefined /\ blockType[block] = "BlockGroup"
    THEN \A i \in 1..Len(blocks[block]) : isEmptyBlock(blocks[block][i])
    ELSE block # Undefined

DeleteResults == {"range", "singleChar", "notDeleted", "nothingToDelete"}

\* The path of the insert point of a context (closest group first)
PathOfContext(context) == PathOf(context.insertPoint)

\* (mutant) any deletion with an insert point is handled
deleteEmptyListAppliesToAnyDeletion(context) == context.insertPoint # Undefined

\* Line 24: deleteResult == 'range' && insertPoint?.path
deleteEmptyListApplies(context) ==
    context.deleteResult = "range" /\ context.insertPoint # Undefined

\* (mutant) the next block is not checked for emptiness
ShouldRemoveLevelsAnyNext(item, previousBlock, nextBlock) ==
    /\ hasSelectionInBlockGroup(item)
    /\ (previousBlock = Undefined \/ hasSelectionInBlock(previousBlock))
    /\ nextBlock # Undefined

\* (mutant) the previous block is not looked at
ShouldRemoveLevelsAnyPrevious(item, previousBlock, nextBlock) ==
    /\ hasSelectionInBlockGroup(item)
    /\ nextBlock # Undefined
    /\ isEmptyBlock(nextBlock)

\* Lines 37-42: the condition under which the levels are removed
ShouldRemoveLevels(item, previousBlock, nextBlock) ==
    /\ hasSelectionInBlockGroup(item)
    /\ (previousBlock = Undefined \/ hasSelectionInBlock(previousBlock))
    /\ nextBlock # Undefined
    /\ isEmptyBlock(nextBlock)

\* (mutant) the levels of the whole list are removed
RemoveLevelsOfList(item) ==
    [n \in Nodes |-> IF n \in Range(blocks[Parent(item)]) THEN <<>> ELSE levels[n]]

\* Line 43: item.levels = []
RemoveLevels(item) == [levels EXCEPT ![item] = <<>>]

\* The value of levels after deleteEmptyList(context), lines 22-47
deleteEmptyList(context) ==
    IF deleteEmptyListApplies(context)
    THEN LET path == PathOfContext(context)
             index == getClosestAncestorBlockGroupIndex(path, "ListItem")
             item == At(path, index)
         IN  IF index >= 0 /\ item # Undefined /\ blockGroupType[item] = "ListItem"
             THEN LET siblings == blocks[At(path, index + 1)]
                      listItemIndex == IndexOf(siblings, item)
                      previousBlock == IF listItemIndex > -1
                                       THEN At(siblings, listItemIndex - 1)
                                       ELSE Undefined
                      nextBlock == IF listItemIndex > -1
                                   THEN At(siblings, listItemIndex + 1)
                                   ELSE Undefined
                  IN  IF ShouldRemoveLevels(item, previousBlock, nextBlock)
                      THEN RemoveLevels(item)
                      ELSE levels
             ELSE levels
    ELSE levels

\* ------------------------------------------------------------------------
\* setModelListStartNumber.ts, lines 9-20
\* ------------------------------------------------------------------------
\* The list level setModelListStartNumber writes to, as [item, index], or
\* Undefined: listItem?.levels[listItem?.levels.length - 1]
LevelToSet ==
    LET listItem == getFirstSelectedListItem
    IN  IF listItem = Undefined \/ levels[listItem] = <<>>
        THEN Undefined
        ELSE listItem

\* (mutant) a list item without levels is given a level to write to
setModelListStartNumberNewLevel(value) ==
    LET listItem == LevelToSet
        first == getFirstSelectedListItem
    IN  IF listItem # Undefined
        THEN [levels EXCEPT ![listItem][Len(levels[listItem])].startNumberOverride = value]
        ELSE IF first # Undefined
        THEN [levels EXCEPT ![first] = <<[Level("OL") EXCEPT !.startNumberOverride = value]>>]
        ELSE levels

\* (mutant) the first (outermost) level is written instead of the last
setModelListStartNumberOuterLevel(value) ==
    LET listItem == LevelToSet
    IN  IF listItem # Undefined
        THEN [levels EXCEPT ![listItem][1].startNumberOverride = value]
        ELSE levels

setModelListStartNumber(value) ==
    LET listItem == LevelToSet
    IN  IF listItem # Undefined
        THEN [levels EXCEPT ![listItem][Len(levels[listItem])].startNumberOverride = value]
        ELSE levels

setModelListStartNumberResult == LevelToSet # Undefined

\* ------------------------------------------------------------------------
\* getListStyleType (src/unnamed/part_000)
\* ------------------------------------------------------------------------
Digits == {"0", "1", "2", "3", "4", "5", "6", "7", "8", "9"}
DigitValue(c) == CASE c = "0" -> 0 [] c = "1" -> 1 [] c = "2" -> 2 [] c = "3" -> 3
                   [] c = "4" -> 4 [] c = "5" -> 5 [] c = "6" -> 6 [] c = "7" -> 7
                   [] c = "8" -> 8 [] c = "9" -> 9

\* The character U+2014
EmDash == "emdash"

\* The enumeration BulletListType of roosterjs-content-model-core
BulletListType ==
    [Disc |-> 1, Dash |-> 2, Square |-> 3, ShortArrow |-> 4, LongArrow |-> 5,
     UnfilledArrow |-> 6, Hyphen |-> 7, DoubleLongArrow |-> 8, Circle |-> 9]

\* A bulletListType in which '--' is given the style of '-'
bulletListTypeDashTwice(listMarker) ==
    CASE listMarker = <<"*">> -> BulletListType.Disc
      [] listMarker = <<"-">> -> BulletListType.Dash
      [] listMarker = <<"-", "-">> -> BulletListType.Dash
      [] listMarker = <<"-", ">">> -> BulletListType.LongArrow
      [] listMarker = <<"-", "-", ">">> -> BulletListType.DoubleLongArrow
      [] listMarker = <<"=", ">">> -> BulletListType.UnfilledArrow
      [] listMarker = <<">">> -> BulletListType.ShortArrow
      [] listMarker = <<EmDash>> -> BulletListType.Hyphen
      [] OTHER -> 0

\* bulletListType, lines 83-92 (0 = no entry)
bulletListType(listMarker) ==
    CASE listMarker = <<"*">> -> BulletListType.Disc
      [] listMarker = <<"-">> -> BulletListType.Dash
      [] listMarker = <<"-", "-">> -> BulletListType.Square
      [] listMarker = <<"-", ">">> -> BulletListType.LongArrow
      [] listMarker = <<"-", "-", ">">> -> BulletListType.DoubleLongArrow
      [] listMarker = <<"=", ">">> -> BulletListType.UnfilledArrow
      [] listMarker = <<">">> -> BulletListType.ShortArrow
      [] listMarker = <<EmDash>> -> BulletListType.Hyphen
      [] OTHER -> 0

\* The number of leading digits of a text
RECURSIVE LeadingDigits(_)
LeadingDigits(t) ==
    IF t # <<>> /\ Head(t) \in Digits THEN 1 + LeadingDigits(Tail(t)) ELSE 0

\* parseInt of a text that starts with digits
RECURSIVE DigitsValue(_, _)
DigitsValue(t, n) ==
    IF n = 0 THEN 0 ELSE DigitsValue(t, n - 1) * 10 + DigitValue(t[n])

\* getNumberingListStyle(listMarker, previousListBullet, previousListStyle):
\* a numbering style (1 = Decimal) for 1-2 digits followed by one of . ) > -
\* and 0 when the text is no numbered marker
getNumberingListStyle(listMarker, previousListBullet, previousListStyle) ==
    LET n == LeadingDigits(listMarker)
    IN  IF n \in 1..2 /\ Len(listMarker) = n + 1
           /\ listMarker[n + 1] \in {".", ")", ">", "-"}
        THEN IF previousListStyle # 0 THEN previousListStyle ELSE 1
        ELSE 0

\* getIndex(listMarker): the number of the marker
getIndex(listMarker) == DigitsValue(listMarker, LeadingDigits(listMarker))

\* A getPreviousListLevel that looks the operational block up in the blocks
\* of its parent, not the paragraph
getPreviousListLevelOfBlock(paragraph) ==
    LET found == SelectSeq(getOperationalBlocks,
                           LAMBDA r : IndexOf(blocks[r.parent], r.block) > -1)
    IN  IF found = <<>> THEN Undefined
        ELSE LET siblings == blocks[found[1].parent]
                 items == {i \in 0..(Len(siblings) - 1) :
                               blockGroupType[At(siblings, i)] = "ListItem"}
             IN  IF items = {} THEN Undefined
                 ELSE At(siblings, CHOOSE i \in items : \A j \in items : j <= i)

\* getPreviousListLevel, lines 58-75
getPreviousListLevel(paragraph) ==
    LET found == SelectSeq(getOperationalBlocks,
                           LAMBDA r : IndexOf(blocks[r.parent], paragraph) > -1)
    IN  IF found = <<>> THEN Undefined
        ELSE LET siblings == blocks[found[1].parent]
                 items == {i \in 0..(Len(siblings) - 1) :
                               blockGroupType[At(siblings, i)] = "ListItem"}
             IN  IF items = {} THEN Undefined
                 ELSE At(siblings, CHOOSE i \in items : \A j \in items : j <= i)

\* getPreviousListStyle, lines 77-81: reading levels[0].dataset of a list item
\* without levels is a TypeError
getPreviousListStyleThrows(list) == list # Undefined /\ levels[list] = <<>>
getPreviousListStyle(list) ==
    IF list # Undefined THEN levels[list][1].orderedStyleType ELSE 0

\* index: undefined (line 50)
NoIndex == -1

NoResult == [tag |-> "void", listType |-> "", styleType |-> 0, index |-> NoIndex]
TypeError == [NoResult EXCEPT !.tag = "TypeError"]
UndefinedResult == [NoResult EXCEPT !.tag = "undefined"]
BoolResult(b) == [NoResult EXCEPT !.tag = IF b THEN "true" ELSE "false"]
StyleResult(t, s, i) == [tag |-> "style", listType |-> t, styleType |-> s, index |-> i]

\* getListStyleType, lines 19-56
getListStyleType ==
    IF SelectedParagraphs = <<>>
    THEN TypeError                       \* selectedSegmentsAndParagraphs[0][0]
    ELSE
    LET paragraph == SelectedParagraphs[1]
        selected == SelectSeq(segments[paragraph], LAMBDA s : s.isSelected)
        marker == selected[1]
        segs == segments[paragraph]
    IN  IF marker.segmentType = "SelectionMarker" /\ segs # <<>>
             /\ segs[1].segmentType = "Text"
        THEN LET listMarker == segs[1].text
                 bulletType == bulletListType(listMarker)
             IN  IF bulletType # 0
                 THEN StyleResult("UL", bulletType, NoIndex)
                 ELSE LET previousList == getPreviousListLevel(paragraph)
                      IN  IF getPreviousListStyleThrows(previousList)
                          THEN TypeError
                          ELSE LET numberingType ==
                                     getNumberingListStyle(
                                         listMarker, 0,
                                         getPreviousListStyle(previousList))
                               IN  IF numberingType # 0
                                   THEN StyleResult("OL", numberingType,
                                            IF previousList # Undefined
                                            THEN getIndex(listMarker) ELSE NoIndex)
                                   ELSE UndefinedResult
        ELSE UndefinedResult

\* ------------------------------------------------------------------------
\* The editor as the list features see it
\* ------------------------------------------------------------------------
Keys == {"TAB", "ENTER", "BACKSPACE", "DELETE", "SPACE", "RANGE"}

\* The keys of the event cache: getElementAtCursor(selector, null, event),
\* getContentSearcherOfCursor(event) and the keys of cacheGetEventData
GET_ELEMENT_AT_CURSOR_LI == "GET_ELEMENT_AT_CURSOR_LI"
GET_ELEMENT_AT_CURSOR_LI_TABLE == "GET_ELEMENT_AT_CURSOR_LI,TABLE"
CONTENT_SEARCHER == "ContentSearcher"
NEXT_SIBLING_CACHE_KEY == "nextSibling"
PREVIOUS_BLOCK_CACHE_KEY == "previousBlock"
NEXT_BLOCK_CACHE_KEY == "nextBlock"
CacheKeys == {GET_ELEMENT_AT_CURSOR_LI, GET_ELEMENT_AT_CURSOR_LI_TABLE, CONTENT_SEARCHER,
              NEXT_SIBLING_CACHE_KEY, PREVIOUS_BLOCK_CACHE_KEY, NEXT_BLOCK_CACHE_KEY}

Absent == "absent"
EmptyCache == [k \in CacheKeys |-> Absent]

NoEvent == [key |-> "none", shiftKey |-> FALSE, defaultPrevented |-> FALSE,
            alive |-> FALSE, cache |-> EmptyCache]

\* What the editor answers at the cursor:
\*   cursorIn         the cursor is in no LI, in an LI, in a TABLE nested in an
\*                    LI, or in a TABLE outside any LI
\*   listTag          the UL/OL above that LI ("none": an LI without a list)
\*   liEmpty          isNodeEmpty(li);   liHasPrevious   li.previousSibling
\*   range            the selection range is collapsed or expanded
\*   atBeginning      the range starts at the beginning of the LI
\*   textBefore       the text before the cursor (the searcher's sub string)
\*   nearestInline    a non-text inline element lies before the cursor
\*   isAtEnd, nextSiblingInLI   the range ends at the end of its block, the
\*                    next block element starts inside an LI
\*   liOnSelection    an LI intersects the selection
\*   prevBlockTag, nextBlockTag   the list before and after the cursor's block
\*   previousIsLi, previousListType   the block element before the text is an
\*                    LI, and the style metadata of its list (0: none)
BaseScene ==
    [cursorIn |-> "none", listTag |-> "none", liEmpty |-> FALSE,
     liHasPrevious |-> FALSE, range |-> "collapsed", atBeginning |-> FALSE,
     textBefore |-> <<>>, nearestInline |-> FALSE, isAtEnd |-> FALSE,
     nextSiblingInLI |-> FALSE, liOnSelection |-> FALSE, prevBlockTag |-> "none",
     nextBlockTag |-> "none", previousIsLi |-> FALSE, previousListType |-> 0]

InLI(s) == s.cursorIn \in {"LI", "LI_TABLE"}

ListCursors ==
    {[BaseScene EXCEPT !.cursorIn = c, !.listTag = t, !.liOnSelection = TRUE] :
        c \in {"LI", "LI_TABLE"}, t \in {"UL", "OL", "none"}}
Cursors ==
    ListCursors \cup {BaseScene, [BaseScene EXCEPT !.cursorIn = "TABLE"]}

\* An expanded selection that starts outside a list and reaches into one
IntoList == [BaseScene EXCEPT !.range = "expanded", !.liOnSelection = TRUE]

ListTags == {"none", "UL", "OL"}

\* The texts typed before the cursor
TypedTexts == {<<"*">>, <<"-">>, <<"-", ">">>, <<"1", ".">>, <<"2", ")">>,
               <<"1", "2", "-">>, <<"(", "1", ")">>, <<"a", ".">>, <<"x">>,
               <<"1", ".", " ">>, <<"1", ")">>, <<"I", ")">>, <<"(", "a", ")">>,
               <<"3", ">">>, <<"(", "1", "2", ")">>}

TabScenes == Cursors \cup {IntoList}
RangeScenes == Cursors \cup {IntoList}
EnterScenes ==
    Cursors \cup {[c EXCEPT !.liEmpty = TRUE, !.atBeginning = TRUE] : c \in ListCursors}
BackspaceScenes ==
    {[c EXCEPT !.liEmpty = e, !.liHasPrevious = p, !.atBeginning = e \/ b, !.range = r] :
        c \in ListCursors, e \in BOOLEAN, p \in BOOLEAN, b \in BOOLEAN,
        r \in {"collapsed", "expanded"}}
    \cup {[c EXCEPT !.prevBlockTag = pt, !.nextBlockTag = nt, !.textBefore = t,
                    !.nearestInline = i] :
            c \in {BaseScene, IntoList}, pt \in ListTags, nt \in ListTags,
            t \in {<<>>, <<"x">>}, i \in BOOLEAN}
DeleteScenes ==
    ListCursors
    \cup {[c EXCEPT !.isAtEnd = e, !.nextSiblingInLI = n] :
            c \in {BaseScene, IntoList}, e \in BOOLEAN, n \in BOOLEAN}
SpaceScenes ==
    {[c EXCEPT !.textBefore = t] : c \in ListCursors, t \in {<<"*">>, <<"1", ".">>}}
    \cup {[BaseScene EXCEPT !.textBefore = t, !.nearestInline = i,
                            !.previousIsLi = (p > 0), !.previousListType = p - 1] :
            t \in TypedTexts, i \in BOOLEAN, p \in 0..3}

Scenes(key) ==
    CASE key = "TAB" -> TabScenes
      [] key = "ENTER" -> EnterScenes
      [] key = "BACKSPACE" -> BackspaceScenes
      [] key = "DELETE" -> DeleteScenes
      [] key = "SPACE" -> SpaceScenes
      [] key = "RANGE" -> RangeScenes

\* The names of ListFeatures in the order of lines 580-590
ListFeatures ==
    <<"autoBullet", "indentWhenTab", "outdentWhenShiftTab",
      "outdentWhenBackspaceOnEmptyFirstLine", "outdentWhenEnterOnEmptyLine",
      "mergeInNewLineWhenBackspaceOnFirstChar", "maintainListChain",
      "maintainListChainWhenDelete", "autoNumberingList", "autoBulletList",
      "mergeListOnBackspaceAfterList">>

\* keys of each feature
FeatureKeys(f) ==
    CASE f = "autoBullet" -> {"SPACE"}
      [] f = "indentWhenTab" -> {"TAB"}
      [] f = "outdentWhenShiftTab" -> {"TAB"}
      [] f = "outdentWhenBackspaceOnEmptyFirstLine" -> {"BACKSPACE"}
      [] f = "outdentWhenEnterOnEmptyLine" -> {"ENTER"}
      [] f = "mergeInNewLineWhenBackspaceOnFirstChar" -> {"BACKSPACE"}
      [] f = "maintainListChain" -> {"ENTER", "TAB", "DELETE", "BACKSPACE", "RANGE"}
      [] f = "maintainListChainWhenDelete" -> {"DELETE"}
      [] f = "autoNumberingList" -> {"SPACE"}
      [] f = "autoBulletList" -> {"SPACE"}
      [] f = "mergeListOnBackspaceAfterList" -> {"BACKSPACE"}

\* defaultDisabled of each feature (line 144; line 199 outside IE and Chrome)
DefaultDisabled == {"mergeInNewLineWhenBackspaceOnFirstChar"}

AllFeatures == Range(ListFeatures)

\* The editor's settings: the enabled features and ExperimentalFeatures.AutoFormatList
SettingsChoices ==
    {[enabled |-> AllFeatures, autoFormatList |-> FALSE],
     [enabled |-> AllFeatures, autoFormatList |-> TRUE],
     [enabled |-> AllFeatures \ DefaultDisabled, autoFormatList |-> FALSE]}

\* The editor at rest
EditorAtRest ==
    /\ ed = BaseScene
    /\ ev = NoEvent
    /\ phase = "Idle"
    /\ idx = 0
    /\ executed = <<>>
    /\ log = <<>>
    /\ queue = <<>>
    /\ mutations = 0
    /\ commits = <<>>

\* ------------------------------------------------------------------------
\* Documents
\* ------------------------------------------------------------------------
Abc == <<"a", "b", "c">>
OneDot == <<"1", ".">>

\* Segments of the paragraph inside the list item
ItemSegments == {<<Marker, Br>>, <<Text(OneDot), Marker>>, <<Text(Abc)>>}

\* The shape of a sibling of the list item: its kind, the segments of its
\* paragraph, whether it is selected (Divider), whether a group has a child
Shape(k, s, sel, child) == [kind |-> k, segs |-> s, selected |-> sel, hasChild |-> child]

PrevShapes ==
    {Shape("Absent", <<>>, FALSE, FALSE)}
    \cup {Shape("Paragraph", s, FALSE, FALSE) :
            s \in {<<Br>>, <<Text(Abc)>>, <<SelText(Abc)>>, <<Text(OneDot), Marker>>}}
    \cup {Shape("ListItem", s, FALSE, TRUE) :
            s \in {<<Text(Abc)>>, <<SelText(Abc)>>, <<Marker, Br>>}}
    \cup {Shape("Divider", <<>>, sel, FALSE) : sel \in BOOLEAN}

NextShapes ==
    {Shape("Absent", <<>>, FALSE, FALSE)}
    \cup {Shape("Paragraph", s, FALSE, FALSE) :
            s \in {<<>>, <<Br>>, <<Marker>>, <<Marker, Br>>, <<Text(Abc)>>,
                   <<Entity>>, <<Br, Text(Abc)>>}}
    \cup {Shape("ListItem", s, FALSE, TRUE) :
            s \in {<<Br>>, <<Marker, Br>>, <<Text(Abc)>>}}
    \cup {Shape("FormatContainer", s, FALSE, TRUE) : s \in {<<Br>>, <<Entity>>}}
    \cup {Shape("FormatContainer", <<>>, FALSE, FALSE),
          Shape("Divider", <<>>, FALSE, FALSE),
          Shape("Table", <<>>, FALSE, FALSE),
          Shape("Entity", <<>>, FALSE, FALSE)}

\* The groups around the paragraph of the list item: a ListItem around the
\* list, a FormatContainer inside the list item
Flat == [wrap |-> "Absent", inner |-> FALSE]
Nestings == {Flat,
             [wrap |-> "Absent", inner |-> TRUE],
             [wrap |-> "ListItem", inner |-> FALSE]}

\* The siblings tried with the nested documents
NestedPrevShapes ==
    {Shape("Absent", <<>>, FALSE, FALSE),
     Shape("Paragraph", <<Text(OneDot), Marker>>, FALSE, FALSE),
     Shape("ListItem", <<Text(Abc)>>, FALSE, TRUE)}
NestedNextShapes ==
    {Shape("Absent", <<>>, FALSE, FALSE),
     Shape("Paragraph", <<Br>>, FALSE, FALSE),
     Shape("ListItem", <<Br>>, FALSE, TRUE),
     Shape("ListItem", <<Text(Abc)>>, FALSE, TRUE)}

IsGroupKind(k) == k \in {"ListItem", "FormatContainer"}

\* The document with the given parts
BlockTypeOf(wrap, prev, next, inner) ==
    [n \in Nodes |->
        CASE n = "root" -> "BlockGroup"
          [] n = "wrap" -> IF wrap = "Absent" THEN "Absent" ELSE "BlockGroup"
          [] n = "prev" -> IF IsGroupKind(prev.kind) THEN "BlockGroup" ELSE prev.kind
          [] n = "next" -> IF IsGroupKind(next.kind) THEN "BlockGroup" ELSE next.kind
          [] n = "item" -> "BlockGroup"
          [] n = "inner" -> IF inner THEN "BlockGroup" ELSE "Absent"
          [] n = "itemPara" -> "Paragraph"
          [] n = "prevPara" -> IF prev.hasChild THEN "Paragraph" ELSE "Absent"
          [] n = "nextPara" -> IF next.hasChild THEN "Paragraph" ELSE "Absent"]

BlockGroupTypeOf(wrap, prev, next, inner) ==
    [n \in Nodes |->
        CASE n = "root" -> "Document"
          [] n = "wrap" -> IF wrap = "Absent" THEN "None" ELSE wrap
          [] n = "prev" -> IF IsGroupKind(prev.kind) THEN prev.kind ELSE "None"
          [] n = "next" -> IF IsGroupKind(next.kind) THEN next.kind ELSE "None"
          [] n = "item" -> "ListItem"
          [] n = "inner" -> IF inner THEN "FormatContainer" ELSE "None"
          [] OTHER -> "None"]

Present(n, shape) == IF shape.kind = "Absent" THEN <<>> ELSE <<n>>

BlocksOf(wrap, prev, next, inner) ==
    LET list == Present("prev", prev) \o <<"item">> \o Present("next", next)
    IN  [n \in Nodes |->
            CASE n = "root" -> IF wrap = "Absent" THEN list ELSE <<"wrap">>
              [] n = "wrap" -> IF wrap = "Absent" THEN <<>> ELSE list
              [] n = "prev" -> IF prev.hasChild THEN <<"prevPara">> ELSE <<>>
              [] n = "next" -> IF next.hasChild THEN <<"nextPara">> ELSE <<>>
              [] n = "item" -> IF inner THEN <<"inner">> ELSE <<"itemPara">>
              [] n = "inner" -> IF inner THEN <<"itemPara">> ELSE <<>>
              [] OTHER -> <<>>]

SegmentsOf(prev, next, itemSegs) ==
    [n \in Nodes |->
        CASE n = "itemPara" -> itemSegs
          [] n = "prev" -> IF prev.kind = "Paragraph" THEN prev.segs ELSE <<>>
          [] n = "next" -> IF next.kind = "Paragraph" THEN next.segs ELSE <<>>
          [] n = "prevPara" -> IF prev.hasChild THEN prev.segs ELSE <<>>
          [] n = "nextPara" -> IF next.hasChild THEN next.segs ELSE <<>>
          [] OTHER -> <<>>]

LevelsOf(wrap, prev, next) ==
    [n \in Nodes |->
        CASE n = "item" -> <<Level("UL"), Level("OL")>>
          [] n = "wrap" -> IF wrap = "ListItem" THEN <<Level("UL")>> ELSE <<>>
          [] n = "prev" -> IF prev.kind = "ListItem" THEN <<Level("OL")>> ELSE <<>>
          [] n = "next" -> IF next.kind = "ListItem" THEN <<Level("OL")>> ELSE <<>>
          [] OTHER -> <<>>]

NoCall == [op |-> "none", deleteResult |-> "", insertPoint |-> Undefined,
           value |-> 0, result |-> NoResult]

\* The content model of a document with these shapes, before any call
Document(nesting, prev, next, itemSegs) ==
    LET wrap == nesting.wrap
        inner == nesting.inner
    IN
      /\ blockType = BlockTypeOf(wrap, prev, next, inner)
      /\ blockGroupType = BlockGroupTypeOf(wrap, prev, next, inner)
      /\ blocks = BlocksOf(wrap, prev, next, inner)
      /\ segments = SegmentsOf(prev, next, itemSegs)
      /\ isSelected = [n \in Nodes |-> n = "prev" /\ prev.selected]
      /\ levels = LevelsOf(wrap, prev, next)
      /\ call = NoCall

Init ==
    \E nesting \in Nestings, prev \in PrevShapes, next \in NextShapes,
       itemSegs \in ItemSegments :
        /\ nesting = Flat \/ (prev \in NestedPrevShapes /\ next \in NestedNextShapes)
        /\ Document(nesting, prev, next, itemSegs)
        /\ settings = [enabled |-> AllFeatures, autoFormatList |-> FALSE]
        /\ EditorAtRest

\* ------------------------------------------------------------------------
\* Operations
\* ------------------------------------------------------------------------
HasMarker(p) ==
    \E i \in 1..Len(segments[p]) : segments[p][i].segmentType = "SelectionMarker"

\* The insert points a deletion can leave: none, or a paragraph that holds
\* the selection marker
InsertPoints ==
    {Undefined} \cup {p \in Nodes : blockType[p] = "Paragraph" /\ HasMarker(p)}

Contexts == [deleteResult : DeleteResults, insertPoint : InsertPoints]

DeleteEmptyList ==
    \E context \in Contexts :
        /\ levels' = deleteEmptyList(context)
        /\ call' = [NoCall EXCEPT !.op = "deleteEmptyList",
                                  !.deleteResult = context.deleteResult,
                                  !.insertPoint = context.insertPoint]
        /\ UNCHANGED <<blockType, blockGroupType, blocks, segments, isSelected>>
        /\ UNCHANGED editorVars

SetModelListStartNumber ==
    \E value \in 1..MaxValue :
        /\ levels' = setModelListStartNumber(value)
        /\ call' = [NoCall EXCEPT !.op = "setModelListStartNumber",
                                  !.value = value,
                                  !.result = BoolResult(setModelListStartNumberResult)]
        /\ UNCHANGED <<blockType, blockGroupType, blocks, segments, isSelected>>
        /\ UNCHANGED editorVars

GetListStyleType ==
    /\ call' = [NoCall EXCEPT !.op = "getListStyleType", !.result = getListStyleType]
    /\ UNCHANGED modelVars
    /\ UNCHANGED editorVars

Next ==
    \/ DeleteEmptyList
    \/ SetModelListStartNumber
    \/ GetListStyleType

Spec == Init /\ [][Next]_vars

\* ------------------------------------------------------------------------
\* Properties of deleteEmptyList
\* ------------------------------------------------------------------------
\* The list items on the path of a block, and the nearest of them: the one
\* that every other one is above
ListItemsAbove(p) == {g \in Range(PathOf(p)) : blockGroupType[g] = "ListItem"}
NearestListItem(p) ==
    CHOOSE g \in ListItemsAbove(p) :
        \A h \in ListItemsAbove(p) : h = g \/ h \in Range(PathOf(g))

PositionIn(s, x) == CHOOSE i \in 1..Len(s) : s[i] = x
Siblings(n) == blocks[Parent(n)]
HasPreviousSibling(n) == PositionIn(Siblings(n), n) > 1
PreviousSibling(n) == Siblings(n)[PositionIn(Siblings(n), n) - 1]
HasNextSibling(n) == PositionIn(Siblings(n), n) < Len(Siblings(n))
NextSibling(n) == Siblings(n)[PositionIn(Siblings(n), n) + 1]

\* c is a call of deleteEmptyList after a range deletion whose insert point
\* lies in a list item
RangeDeletionInList(c) ==
    /\ c.op = "deleteEmptyList"
    /\ c.deleteResult = "range"
    /\ c.insertPoint # Undefined
    /\ ListItemsAbove(c.insertPoint) # {}

\* The three conditions of the collapse, for list item I
CollapseCondition(I) ==
    /\ hasSelectionInBlockGroup(I)
    /\ (~HasPreviousSibling(I) \/ hasSelectionInBlock(PreviousSibling(I)))
    /\ HasNextSibling(I)
    /\ isEmptyBlock(NextSibling(I))

\* C2: after a range deletion with nearest list item I, deleteEmptyList sets
\* I.levels to the empty sequence exactly when I has selection, I has no
\* previous sibling or the previous sibling has selection, and I has a next
\* sibling that the emptiness check judges empty; otherwise I.levels is
\* left as it was.
C2_CollapseExactlyWhen ==
    [][RangeDeletionInList(call') =>
          LET I == NearestListItem(call'.insertPoint)
          IN  levels'[I] = IF CollapseCondition(I) THEN <<>> ELSE levels[I]]_vars

C2_Witness ==
    /\ RangeDeletionInList(call)
    /\ CollapseCondition(NearestListItem(call.insertPoint))
    /\ HasPreviousSibling(NearestListItem(call.insertPoint))
    /\ levels[NearestListItem(call.insertPoint)] = <<>>

\* Emptiness as the specification words it: a paragraph is empty iff all its
\* segments are selection markers or line breaks
RECURSIVE EmptyCountingMarkers(_)
EmptyCountingMarkers(n) ==
    IF blockType[n] = "Paragraph"
    THEN \A i \in 1..Len(segments[n]) :
            segments[n][i].segmentType \in {"SelectionMarker", "Br"}
    ELSE IF blockType[n] = "BlockGroup"
    THEN \A i \in 1..Len(blocks[n]) : EmptyCountingMarkers(blocks[n][i])
    ELSE TRUE

\* Emptiness with line breaks only
RECURSIVE EmptyOfLineBreaks(_)
EmptyOfLineBreaks(n) ==
    IF blockType[n] = "Paragraph"
    THEN \A i \in 1..Len(segments[n]) : segments[n][i].segmentType = "Br"
    ELSE IF blockType[n] = "BlockGroup"
    THEN \A i \in 1..Len(blocks[n]) : EmptyOfLineBreaks(blocks[n][i])
    ELSE TRUE

PresentBlocks == {n \in Nodes : blockType[n] # "Absent"}

\* C3 (as claimed): the emptiness check judges a paragraph empty iff every
\* segment is a selection marker or a line break, and a block group empty iff
\* every child block is empty, recursively.
C3_EmptyIffMarkersOrBr ==
    call.op = "deleteEmptyList" =>
        \A n \in PresentBlocks : isEmptyBlock(n) <=> EmptyCountingMarkers(n)

\* C3 (amended): the emptiness check judges a paragraph empty iff every
\* segment is a line break (a paragraph holding a selection marker is not
\* empty), and a block group empty iff every child block is empty, recursively.
C3_EmptyIffOnlyBr ==
    \A n \in PresentBlocks : isEmptyBlock(n) <=> EmptyOfLineBreaks(n)

\* deleteEmptyList met a next sibling paragraph of only a marker and a line
\* break, judged it not empty and kept the levels
C3_Witness ==
    /\ RangeDeletionInList(call)
    /\ LET I == NearestListItem(call.insertPoint)
       IN  /\ hasSelectionInBlockGroup(I)
           /\ ~HasPreviousSibling(I)
           /\ HasNextSibling(I)
           /\ blockType[NextSibling(I)] = "Paragraph"
           /\ segments[NextSibling(I)] = <<Marker, Br>>
           /\ ~isEmptyBlock(NextSibling(I))
           /\ levels[I] # <<>>

\* C4: deleteEmptyList leaves the whole model unchanged when deleteResult is
\* not 'range', or there is no insert point, or no ListItem is on the insert
\* point's path.
C4_OnlyRangeDeletions ==
    [][(/\ call'.op = "deleteEmptyList"
        /\ \/ call'.deleteResult # "range"
           \/ call'.insertPoint = Undefined
           \/ ListItemsAbove(call'.insertPoint) = {})
       => UNCHANGED modelVars]_vars

\* a deletion that is no range deletion, at a list item that a range
\* deletion would have collapsed
C4_Witness ==
    /\ call.op = "deleteEmptyList"
    /\ call.deleteResult = "singleChar"
    /\ call.insertPoint # Undefined
    /\ ListItemsAbove(call.insertPoint) # {}
    /\ CollapseCondition(NearestListItem(call.insertPoint))
    /\ levels[NearestListItem(call.insertPoint)] # <<>>

\* C5: when deleteEmptyList collapses a list item, the only change is that
\* item's levels becoming empty: blocks (so the item's place in its parent,
\* its children and its siblings), segments (so the insert point's marker)
\* and the levels of every other list item are unchanged.
C5_OnlyLevelsOfItem ==
    [][(call'.op = "deleteEmptyList" /\ levels' # levels) =>
          LET I == NearestListItem(call'.insertPoint)
          IN  /\ levels'[I] = <<>>
              /\ \A n \in Nodes \ {I} : levels'[n] = levels[n]
              /\ UNCHANGED <<blockType, blockGroupType, blocks, segments, isSelected>>]_vars

\* a collapsed item that still is in its parent beside a list item with levels
C5_Witness ==
    /\ RangeDeletionInList(call)
    /\ LET I == NearestListItem(call.insertPoint)
       IN  /\ levels[I] = <<>>
           /\ CollapseCondition(I)
           /\ I \in Range(Siblings(I))
           /\ \E n \in Range(Siblings(I)) : n # I /\ levels[n] # <<>>

\* a block holds content: something that is neither marker nor line break
NonEmpty(n) == ~EmptyCountingMarkers(n)

PreviousItemNonEmpty(I) ==
    /\ HasPreviousSibling(I)
    /\ blockGroupType[PreviousSibling(I)] = "ListItem"
    /\ NonEmpty(PreviousSibling(I))

\* C6 (as claimed): if the list item holding the insert point has a non-empty
\* previous sibling item, deleteEmptyList does not clear its levels.
C6_NonEmptyPreviousKeepsLevels ==
    [][(/\ RangeDeletionInList(call')
        /\ PreviousItemNonEmpty(NearestListItem(call'.insertPoint)))
       => levels'[NearestListItem(call'.insertPoint)]
            = levels[NearestListItem(call'.insertPoint)]]_vars

\* C6 (amended): if the list item holding the insert point has a non-empty
\* previous sibling item that has no selection in it, deleteEmptyList does
\* not clear its levels, even when the item has selection and its next
\* sibling is an empty list item.
C6_UnselectedPreviousKeepsLevels ==
    [][(/\ RangeDeletionInList(call')
        /\ PreviousItemNonEmpty(NearestListItem(call'.insertPoint))
        /\ ~hasSelectionInBlock(PreviousSibling(NearestListItem(call'.insertPoint))))
       => levels'[NearestListItem(call'.insertPoint)]
            = levels[NearestListItem(call'.insertPoint)]]_vars

C6_Witness ==
    /\ RangeDeletionInList(call)
    /\ LET I == NearestListItem(call.insertPoint)
       IN  /\ PreviousItemNonEmpty(I)
           /\ ~hasSelectionInBlock(PreviousSibling(I))
           /\ hasSelectionInBlockGroup(I)
           /\ HasNextSibling(I)
           /\ blockGroupType[NextSibling(I)] = "ListItem"
           /\ isEmptyBlock(NextSibling(I))
           /\ levels[I] # <<>>

\* ------------------------------------------------------------------------
\* Properties of setModelListStartNumber and getListStyleType
\* ------------------------------------------------------------------------
\* C7: setModelListStartNumber(model, value) returns true exactly when there
\* is a first selected list item with at least one level; it then sets
\* startNumberOverride to value on the last level of that item and changes
\* nothing else; otherwise it returns false and the model is unchanged.
C7_StartNumberOnLastLevel ==
    [][call'.op = "setModelListStartNumber" =>
          LET item == getFirstSelectedListItem
          IN  IF item # Undefined /\ Len(levels[item]) >= 1
              THEN /\ call'.result = BoolResult(TRUE)
                   /\ \A n \in Nodes :
                        /\ Len(levels'[n]) = Len(levels[n])
                        /\ \A k \in 1..Len(levels[n]) :
                             levels'[n][k] =
                               IF n = item /\ k = Len(levels[n])
                               THEN [levels[n][k] EXCEPT
                                        !.startNumberOverride = call'.value]
                               ELSE levels[n][k]
                   /\ UNCHANGED <<blockType, blockGroupType, blocks, segments, isSelected>>
              ELSE /\ call'.result = BoolResult(FALSE)
                   /\ UNCHANGED modelVars]_vars

C7_Witness ==
    /\ call.op = "setModelListStartNumber"
    /\ call.result = BoolResult(TRUE)
    /\ LET item == getFirstSelectedListItem
       IN  /\ Len(levels[item]) = 2
           /\ levels[item][2].startNumberOverride = call.value
           /\ levels[item][1].startNumberOverride = 0

\* C10: getListStyleType never raises an error: for every model state it
\* returns a style result or undefined.
C10_NeverRaises ==
    call.op = "getListStyleType" => call.result.tag \in {"style", "undefined"}

\* ------------------------------------------------------------------------
\* ListFeatures: helpers (setModelListStartNumber.ts, lines 22-598)
\* ------------------------------------------------------------------------
\* cacheGetEventData(event, key, getter): the cached value when there is one,
\* else the getter's value, which is stored
Lookup(cache, key, value) == IF cache[key] # Absent THEN cache[key] ELSE value
Store(cache, key, value) ==
    IF cache[key] # Absent THEN cache ELSE [cache EXCEPT ![key] = value]

\* editor.getElementAtCursor('LI') and ('LI,TABLE') from the cursor
ElementAtCursorLI == IF InLI(ed) THEN "LI" ELSE "null"
ElementAtCursorLIorTABLE ==
    CASE ed.cursorIn = "LI" -> "LI"
      [] ed.cursorIn \in {"LI_TABLE", "TABLE"} -> "TABLE"
      [] OTHER -> "null"

\* searcher.getSubStringBefore(n): the last n characters before the cursor
LastChars(t, n) == IF Len(t) <= n THEN t ELSE SubSeq(t, Len(t) - n + 1, Len(t))

WhiteSpace == {" ", "nbsp"}
HasSpace(t) == \E i \in 1..Len(t) : t[i] \in WhiteSpace

RECURSIVE TrimStart(_)
TrimStart(t) == IF t # <<>> /\ Head(t) \in WhiteSpace THEN TrimStart(Tail(t)) ELSE t
RECURSIVE TrimEnd(_)
TrimEnd(t) ==
    IF t # <<>> /\ t[Len(t)] \in WhiteSpace THEN TrimEnd(SubSeq(t, 1, Len(t) - 1)) ELSE t
Trim(t) == TrimEnd(TrimStart(t))

\* One or two digits followed by the character c, and nothing else
DigitsThen(t, c) ==
    LET n == LeadingDigits(t) IN n \in 1..2 /\ Len(t) = n + 1 /\ t[n + 1] = c

\* isAListPattern, lines 208-211
isAListPattern(textBeforeCursor) ==
    \/ textBeforeCursor = <<"*">>
    \/ textBeforeCursor = <<"-">>
    \/ \E c \in {".", ">", ")", "-"} : DigitsThen(textBeforeCursor, c)
    \/ /\ textBeforeCursor # <<>>
       /\ Head(textBeforeCursor) = "("
       /\ DigitsThen(Tail(textBeforeCursor), ")")

\* parseInt(text): the leading integer, 0 standing for NaN
parseInt(t) == DigitsValue(TrimStart(t), LeadingDigits(TrimStart(t)))

\* isFirstItemOfAList, lines 376-384: 1 or 0 (undefined)
Punctuation == {"(", ")", "-", "."}
isFirstItemOfAList(item) ==
    LET number == parseInt(item)
        letter == Trim(SelectSeq(item, LAMBDA c : c \notin Punctuation))
    IN  IF number = 1 THEN 1
        ELSE IF Len(letter) = 1 /\ letter[1] \in {"i", "a", "I", "A"} THEN 1 ELSE 0

\* getAutoBulletListStyle(text): the bullet style of the trimmed text, 0: none
getAutoBulletListStyle(text) == bulletListType(Trim(text))

\* getAutoNumberingListStyle(text, chains, previousListStyle): the numbering
\* style of a marker (digits or a letter with . - ) or in parentheses), 0: none
LowerLetters == {"a", "b", "c", "i"}
UpperLetters == {"A", "B", "I"}
getAutoNumberingListStyle(text) ==
    LET t == Trim(text)
        inner == IF Len(t) >= 3 /\ Head(t) = "(" /\ t[Len(t)] = ")"
                 THEN SubSeq(t, 2, Len(t) - 1) ELSE <<>>
    IN  CASE DigitsThen(t, ".") -> 1
          [] DigitsThen(t, "-") -> 2
          [] DigitsThen(t, ")") -> 3
          [] inner # <<>> /\ LeadingDigits(inner) = Len(inner) /\ Len(inner) <= 2 -> 4
          [] Len(t) = 2 /\ t[1] \in LowerLetters /\ t[2] = "." -> 5
          [] Len(t) = 2 /\ t[1] \in LowerLetters /\ t[2] = ")" -> 6
          [] Len(inner) = 1 /\ inner[1] \in LowerLetters -> 7
          [] Len(t) = 2 /\ t[1] \in LowerLetters /\ t[2] = "-" -> 8
          [] Len(t) = 2 /\ t[1] \in UpperLetters /\ t[2] = "." -> 9
          [] Len(t) = 2 /\ t[1] \in UpperLetters /\ t[2] = ")" -> 10
          [] Len(inner) = 1 /\ inner[1] \in UpperLetters -> 11
          [] Len(t) = 2 /\ t[1] \in UpperLetters /\ t[2] = "-" -> 12
          [] OTHER -> 0

\* getPreviousListItem, lines 353-360, and getPreviousListType, lines 362-374
getPreviousListItem == ed.previousIsLi
getPreviousListType(listType) ==
    IF getPreviousListItem /\ listType = "Ordered" THEN ed.previousListType ELSE 0

\* What evaluating a predicate yields: its value, the event cache, and the
\* document and selection it leaves
Evaluated(result, cache) ==
    [result |-> result, cache |-> cache, ed |-> ed, mutations |-> mutations]

\* cacheGetListElement, lines 455-459: the list element above the LI at the
\* cursor ("none": null), with the cache after the call
cacheGetListElement(cache) ==
    LET li == Lookup(cache, GET_ELEMENT_AT_CURSOR_LI_TABLE, ElementAtCursorLIorTABLE)
        listElement == IF li = "LI" THEN ed.listTag ELSE "none"
    IN  [listElement |-> listElement,
         cache |-> Store(cache, GET_ELEMENT_AT_CURSOR_LI_TABLE, ElementAtCursorLIorTABLE)]

\* editor.getElementAtCursor('LI', null, event)
GetLI(cache) ==
    [li |-> Lookup(cache, GET_ELEMENT_AT_CURSOR_LI, ElementAtCursorLI),
     cache |-> Store(cache, GET_ELEMENT_AT_CURSOR_LI, ElementAtCursorLI)]

\* editor.getContentSearcherOfCursor(event)
WithSearcher(cache) == Store(cache, CONTENT_SEARCHER, "searcher")

\* getCacheNextSibling, lines 407-415
getCacheNextSibling(cache) ==
    LET element == IF ed.nextSiblingInLI THEN "LI" ELSE "other"
    IN  [element |-> Lookup(cache, NEXT_SIBLING_CACHE_KEY, element),
         cache |-> Store(cache, NEXT_SIBLING_CACHE_KEY, element)]

\* A shouldTriggerList that prepares the block for the list while it decides
shouldTriggerListPreparing(cache, listType) ==
    [result |-> ~HasSpace(LastChars(ed.textBefore, 4)) /\ ~ed.nearestInline,
     cache |-> WithSearcher(cache),
     ed |-> [ed EXCEPT !.textBefore = <<>>],
     mutations |-> mutations + 1]

\* A shouldTriggerList that does not accept a marker for the lack of a
\* previous list style
shouldTriggerListNeedsPrevious(cache, listType) ==
    LET textBeforeCursor == LastChars(ed.textBefore, 4)
        listStyle == IF listType = "Ordered"
                     THEN getAutoNumberingListStyle(textBeforeCursor)
                     ELSE getAutoBulletListStyle(textBeforeCursor)
    IN  Evaluated(/\ ~HasSpace(textBeforeCursor)
                  /\ ~ed.nearestInline
                  /\ listStyle # 0
                  /\ \/ isFirstItemOfAList(textBeforeCursor) # 0
                     \/ getPreviousListType(listType) = listStyle
                     \/ listType = "Unordered",
                  WithSearcher(cache))

\* shouldTriggerList, lines 461-491
shouldTriggerList(cache, listType) ==
    LET textBeforeCursor == LastChars(ed.textBefore, 4)
        itHasSpace == HasSpace(textBeforeCursor)
        previousListType == getPreviousListType(listType)
        isFirstItem == isFirstItemOfAList(textBeforeCursor)
        listStyle == IF listType = "Ordered"
                     THEN getAutoNumberingListStyle(textBeforeCursor)
                     ELSE getAutoBulletListStyle(textBeforeCursor)
        shouldTriggerNewListStyle ==
            \/ isFirstItem # 0
            \/ previousListType = 0
            \/ previousListType = listStyle
            \/ listType = "Unordered"
    IN  Evaluated(/\ ~itHasSpace
                  /\ ~ed.nearestInline
                  /\ listStyle # 0
                  /\ shouldTriggerNewListStyle,
                  WithSearcher(cache))


\* ------------------------------------------------------------------------
\* ListFeatures: shouldHandleEvent of each feature
\* ------------------------------------------------------------------------
\* An IndentWhenTab predicate that does not look at the Shift key
IndentWhenTabShouldHandleEventAnyShift(cache) ==
    LET r == cacheGetListElement(cache)
    IN  Evaluated(r.listElement # "none", r.cache)

\* IndentWhenTab, lines 97-98
IndentWhenTabShouldHandleEvent(cache) ==
    IF ev.shiftKey THEN Evaluated(FALSE, cache)
    ELSE LET r == cacheGetListElement(cache)
         IN  Evaluated(r.listElement # "none", r.cache)

\* OutdentWhenShiftTab, lines 110-111
OutdentWhenShiftTabShouldHandleEvent(cache) ==
    IF ~ev.shiftKey THEN Evaluated(FALSE, cache)
    ELSE LET r == cacheGetListElement(cache)
         IN  Evaluated(r.listElement # "none", r.cache)

\* MergeInNewLine, lines 124-128
MergeInNewLineShouldHandleEvent(cache) ==
    LET r == GetLI(cache)
    IN  Evaluated(r.li = "LI" /\ ed.range = "collapsed" /\ ed.atBeginning, r.cache)

\* OutdentWhenBackOn1stEmptyLine, lines 153-156
OutdentWhenBackOn1stEmptyLineShouldHandleEvent(cache) ==
    LET r == GetLI(cache)
    IN  Evaluated(r.li = "LI" /\ ed.liEmpty /\ ~ed.liHasPrevious, r.cache)

\* MaintainListChainWhenDelete, lines 166-175
MaintainListChainWhenDeleteShouldHandleEvent(cache) ==
    LET r == GetLI(cache)
    IN  IF r.li = "LI" THEN Evaluated(FALSE, r.cache)
        ELSE IF ~ed.isAtEnd THEN Evaluated(FALSE, r.cache)
        ELSE LET n == getCacheNextSibling(r.cache)
             IN  Evaluated(n.element = "LI", n.cache)

\* OutdentWhenEnterOnEmptyLine, lines 188-191
OutdentWhenEnterOnEmptyLineShouldHandleEvent(cache) ==
    LET r == GetLI(cache)
    IN  Evaluated(~ev.shiftKey /\ r.li = "LI" /\ ed.liEmpty, r.cache)

\* An AutoBullet predicate that does not ask whether AutoFormatList is on
AutoBulletShouldHandleEventAnyFormat(cache) ==
    LET r == cacheGetListElement(cache)
    IN  IF r.listElement = "none"
        THEN Evaluated(/\ isAListPattern(LastChars(ed.textBefore, 4))
                       /\ ~ed.nearestInline,
                       WithSearcher(r.cache))
        ELSE Evaluated(FALSE, r.cache)

\* AutoBullet, lines 220-234
AutoBulletShouldHandleEvent(cache) ==
    LET r == cacheGetListElement(cache)
    IN  IF r.listElement = "none" /\ ~settings.autoFormatList
        THEN Evaluated(/\ isAListPattern(LastChars(ed.textBefore, 4))
                       /\ ~ed.nearestInline,
                       WithSearcher(r.cache))
        ELSE Evaluated(FALSE, r.cache)

\* AutoBulletList, lines 275-283
AutoBulletListShouldHandleEvent(cache) ==
    LET r == cacheGetListElement(cache)
    IN  IF r.listElement = "none" /\ settings.autoFormatList
        THEN shouldTriggerList(r.cache, "Unordered")
        ELSE Evaluated(FALSE, r.cache)

\* AutoNumberingList, lines 312-320
AutoNumberingListShouldHandleEvent(cache) ==
    LET r == cacheGetListElement(cache)
    IN  IF r.listElement = "none" /\ settings.autoFormatList
        THEN shouldTriggerList(r.cache, "Ordered")
        ELSE Evaluated(FALSE, r.cache)

\* MaintainListChain, lines 395-396
MaintainListChainShouldHandleEvent(cache) == Evaluated(ed.liOnSelection, cache)

\* isList, lines 593-598
isList(tag) == tag \in {"UL", "OL"}

\* MergeListOnBackspaceAfterList, lines 498-536
MergeListOnBackspaceAfterListShouldHandleEvent(cache) ==
    IF ~isList(ed.prevBlockTag) THEN Evaluated(FALSE, cache)
    ELSE LET searched == WithSearcher(cache)
         IN  IF /\ ed.range = "collapsed"
                /\ LastChars(ed.textBefore, 4) = <<>>
                /\ ~ed.nearestInline
                /\ isList(ed.nextBlockTag)
                /\ ed.prevBlockTag = ed.nextBlockTag
             THEN Evaluated(TRUE,
                            Store(Store(searched, PREVIOUS_BLOCK_CACHE_KEY, ed.prevBlockTag),
                                  NEXT_BLOCK_CACHE_KEY, ed.nextBlockTag))
             ELSE Evaluated(FALSE, searched)

\* feature.shouldHandleEvent(event, editor) of the entry of ListFeatures named f
shouldHandleEvent(f, cache) ==
    CASE f = "autoBullet" -> AutoBulletShouldHandleEvent(cache)
      [] f = "indentWhenTab" -> IndentWhenTabShouldHandleEvent(cache)
      [] f = "outdentWhenShiftTab" -> OutdentWhenShiftTabShouldHandleEvent(cache)
      [] f = "outdentWhenBackspaceOnEmptyFirstLine" ->
            OutdentWhenBackOn1stEmptyLineShouldHandleEvent(cache)
      [] f = "outdentWhenEnterOnEmptyLine" -> OutdentWhenEnterOnEmptyLineShouldHandleEvent(cache)
      [] f = "mergeInNewLineWhenBackspaceOnFirstChar" -> MergeInNewLineShouldHandleEvent(cache)
      [] f = "maintainListChain" -> MaintainListChainShouldHandleEvent(cache)
      [] f = "maintainListChainWhenDelete" -> MaintainListChainWhenDeleteShouldHandleEvent(cache)
      [] f = "autoNumberingList" -> AutoNumberingListShouldHandleEvent(cache)
      [] f = "autoBulletList" -> AutoBulletListShouldHandleEvent(cache)
      [] f = "mergeListOnBackspaceAfterList" ->
            MergeListOnBackspaceAfterListShouldHandleEvent(cache)


\* ------------------------------------------------------------------------
\* ListFeatures: handleEvent of each feature
\* ------------------------------------------------------------------------
\* toggleNumbering(editor) without a start number (line 255, line 340)
NoStartNumber == -1

\* A call of the editor API made by a handler: its name, its arguments, the
\* text of the range it acts on, and whether it is made inside the callback
\* of editor.addUndoSnapshot
Call(api, arg, num, undo) ==
    [api |-> api, arg |-> arg, num |-> num, undo |-> undo, text |-> <<>>]

\* searcher.getRangeFromText(textBeforeCursor, true)?.deleteContents(), made
\* inside the callback of editor.addUndoSnapshot
DeleteContents(textBeforeCursor) ==
    [Call("deleteContents", "", NoStartNumber, TRUE) EXCEPT !.text = textBeforeCursor]

\* The calls that change the content of the document
MutatingApis ==
    {"setIndentation", "toggleListType", "vList.writeBack", "insertContent",
     "prepareAutoBullet", "toggleBullet", "toggleNumbering", "deleteContents",
     "browserDefault", "insertNode", "removeChild"}
Mutations(calls) == Cardinality({i \in 1..Len(calls) : calls[i].api \in MutatingApis})

\* VListChain.createListChains(editor.getSelectedRegions()), lines 403-405:
\* the chains of the content as it is when they are created
NoChains == [content |-> "none", seen |-> 0]
getListChains == [content |-> "document", seen |-> mutations]

\* The callbacks handed to editor.runAsync
Task(run, chains) == [run |-> run, chains |-> chains]

\* What a handler does: the API calls it makes, whether it calls
\* event.rawEvent.preventDefault(), the callbacks it defers, the event cache
\* and the text before the cursor it leaves
Handled(calls, preventDefault, tasks, cache, textBefore) ==
    [calls |-> calls, preventDefault |-> preventDefault, tasks |-> tasks,
     cache |-> cache, textBefore |-> textBefore]

\* IndentWhenTab, lines 99-102
IndentWhenTabHandleEvent ==
    Handled(<<Call("setIndentation", "Increase", NoStartNumber, FALSE)>>, TRUE, <<>>,
            ev.cache, ed.textBefore)

\* OutdentWhenShiftTab, lines 112-115
OutdentWhenShiftTabHandleEvent ==
    Handled(<<Call("setIndentation", "Decrease", NoStartNumber, FALSE)>>, TRUE, <<>>,
            ev.cache, ed.textBefore)

\* toggleListAndPreventDefault, lines 431-453
toggleListAndPreventDefault(includeSiblingLists, undo) ==
    LET listInfo == cacheGetListElement(ev.cache)
        tag == listInfo.listElement
    IN  IF tag = "none" THEN Handled(<<>>, FALSE, <<>>, listInfo.cache, ed.textBefore)
        ELSE Handled(
                (IF tag \in {"UL", "OL"}
                 THEN <<Call("toggleListType",
                             IF tag = "UL" THEN "Unordered" ELSE "Ordered",
                             IF includeSiblingLists THEN 1 ELSE 0, undo)>>
                 ELSE <<>>)
                \o <<Call("focus", "", NoStartNumber, undo)>>,
                TRUE, <<>>, listInfo.cache, ed.textBefore)

\* MergeInNewLine, lines 129-143
MergeInNewLineHandleEvent ==
    IF ed.liHasPrevious
    THEN Handled(<<Call("vList.setIndentation", "Decrease", NoStartNumber, FALSE),
                   Call("vList.writeBack", "", NoStartNumber, FALSE)>>,
                 TRUE, <<>>, GetLI(ev.cache).cache, ed.textBefore)
    ELSE toggleListAndPreventDefault(TRUE, FALSE)

\* OutdentWhenBackOn1stEmptyLine, line 157
OutdentWhenBackOn1stEmptyLineHandleEvent == toggleListAndPreventDefault(TRUE, FALSE)

\* MaintainListChainWhenDelete, lines 176-179
MaintainListChainWhenDeleteHandleEvent ==
    Handled(<<>>, FALSE, <<Task("commitListChains", getListChains)>>, ev.cache, ed.textBefore)

\* OutdentWhenEnterOnEmptyLine, lines 192-198
OutdentWhenEnterOnEmptyLineHandleEvent ==
    LET inner == toggleListAndPreventDefault(FALSE, TRUE)
    IN  [inner EXCEPT
            !.calls = <<Call("addUndoSnapshot", "canUndoByBackspace", NoStartNumber, FALSE)>>
                      \o inner.calls]

\* editor.insertContent('&nbsp;'): the text before the cursor afterwards
AfterNbsp == Append(ed.textBefore, "nbsp")

\* AutoBullet, lines 235-266
AutoBulletHandleEvent ==
    LET textBeforeCursor == LastChars(AfterNbsp, 4)
        toggled ==
            CASE Head(textBeforeCursor) \in {"*", "-"} ->
                    <<Call("prepareAutoBullet", "", NoStartNumber, TRUE),
                      Call("toggleBullet", "", NoStartNumber, TRUE)>>
              [] isAListPattern(textBeforeCursor) ->
                    <<Call("prepareAutoBullet", "", NoStartNumber, TRUE),
                      Call("toggleNumbering", "", NoStartNumber, TRUE)>>
              [] OTHER ->
                    <<Call("prepareAutoBullet", "", NoStartNumber, TRUE),
                      Call("toggleNumbering", "", parseInt(textBeforeCursor), TRUE)>>
    IN  Handled(<<Call("insertContent", "nbsp", NoStartNumber, FALSE),
                  Call("addUndoSnapshot", "canUndoByBackspace", NoStartNumber, FALSE)>>
                \o toggled
                \o <<DeleteContents(textBeforeCursor)>>,
                TRUE, <<>>, ev.cache,
                SubSeq(AfterNbsp, 1, Len(AfterNbsp) - Len(textBeforeCursor)))

\* AutoBulletList, lines 284-303
AutoBulletListHandleEvent ==
    LET textBeforeCursor == LastChars(AfterNbsp, 5)
        listStyle == getAutoBulletListStyle(textBeforeCursor)
    IN  Handled(<<Call("insertContent", "nbsp", NoStartNumber, FALSE),
                  Call("addUndoSnapshot", "canUndoByBackspace", NoStartNumber, FALSE),
                  Call("prepareAutoBullet", "", NoStartNumber, TRUE),
                  Call("toggleBullet", "autoToggleList", listStyle, TRUE),
                  DeleteContents(textBeforeCursor)>>,
                TRUE, <<>>, ev.cache, <<>>)

\* An AutoNumberingList handler that passes the number whatever the
\* previous block is
AutoNumberingListHandleEventAlwaysNumber ==
    LET textBeforeCursor == LastChars(AfterNbsp, 5)
        number == IF isFirstItemOfAList(textBeforeCursor) # 0 THEN 1
                  ELSE parseInt(textBeforeCursor)
    IN  Handled(<<Call("insertContent", "nbsp", NoStartNumber, FALSE),
                  Call("addUndoSnapshot", "canUndoByBackspace", NoStartNumber, FALSE),
                  Call("prepareAutoBullet", "", NoStartNumber, TRUE),
                  Call("toggleNumbering", "autoToggleList", number, TRUE),
                  DeleteContents(textBeforeCursor)>>,
                TRUE, <<>>, ev.cache, <<>>)

\* AutoNumberingList, lines 321-350
AutoNumberingListHandleEvent ==
    LET textBeforeCursor == LastChars(AfterNbsp, 5)
        number == IF isFirstItemOfAList(textBeforeCursor) # 0 THEN 1
                  ELSE parseInt(textBeforeCursor)
        isLi == getPreviousListItem
        listStyle == getAutoNumberingListStyle(textBeforeCursor)
        startNumber == IF isLi /\ number # 1 THEN NoStartNumber ELSE number
    IN  Handled(<<Call("insertContent", "nbsp", NoStartNumber, FALSE),
                  Call("addUndoSnapshot", "canUndoByBackspace", NoStartNumber, FALSE),
                  Call("prepareAutoBullet", "", NoStartNumber, TRUE),
                  Call("toggleNumbering", "autoToggleList", startNumber, TRUE),
                  DeleteContents(textBeforeCursor)>>,
                TRUE, <<>>, ev.cache, <<>>)

\* A MaintainListChain handler that defers the commit of the chains twice
MaintainListChainHandleEventTwice ==
    Handled(<<>>, FALSE,
            <<Task("commitListChains", getListChains), Task("commitListChains", getListChains)>>,
            ev.cache, ed.textBefore)

\* MaintainListChain, lines 397-400
MaintainListChainHandleEvent ==
    Handled(<<>>, FALSE, <<Task("commitListChains", getListChains)>>, ev.cache, ed.textBefore)

\* MergeListOnBackspaceAfterList, lines 537-570: the whole handler is deferred
MergeListOnBackspaceAfterListHandleEvent ==
    Handled(<<>>, FALSE, <<Task("mergeVList", NoChains)>>, ev.cache, ed.textBefore)

\* A callback that takes the temporary element out before it has put the
\* cursor behind it
MergeVListCallsRemoveFirst(rangeBeforeWriteBack) ==
    LET previousList == Lookup(ev.cache, PREVIOUS_BLOCK_CACHE_KEY, "null")
        targetBlock == Lookup(ev.cache, NEXT_BLOCK_CACHE_KEY, "null")
        reads == <<Call("cacheGetEventData", PREVIOUS_BLOCK_CACHE_KEY, NoStartNumber, FALSE),
                   Call("cacheGetEventData", NEXT_BLOCK_CACHE_KEY, NoStartNumber, FALSE)>>
    IN  IF previousList # "null" /\ targetBlock # "null" /\ rangeBeforeWriteBack
        THEN reads \o <<Call("mergeVList", previousList, NoStartNumber, FALSE),
                        Call("insertNode", "restoreRange", NoStartNumber, FALSE),
                        Call("vList.writeBack", "", NoStartNumber, FALSE),
                        Call("removeChild", "restoreRange", NoStartNumber, FALSE),
                        Call("select", "restoreRange", NoStartNumber, FALSE)>>
        ELSE reads

\* The callback of MergeListOnBackspaceAfterList, lines 538-569, when it runs;
\* rangeBeforeWriteBack: editor.getSelectionRange() returns a range. The
\* element that queryElements('#restoreRange') finds is in the document and
\* so has a parent.
MergeVListCalls(rangeBeforeWriteBack) ==
    LET previousList == Lookup(ev.cache, PREVIOUS_BLOCK_CACHE_KEY, "null")
        targetBlock == Lookup(ev.cache, NEXT_BLOCK_CACHE_KEY, "null")
        reads == <<Call("cacheGetEventData", PREVIOUS_BLOCK_CACHE_KEY, NoStartNumber, FALSE),
                   Call("cacheGetEventData", NEXT_BLOCK_CACHE_KEY, NoStartNumber, FALSE)>>
    IN  IF previousList # "null" /\ targetBlock # "null" /\ rangeBeforeWriteBack
        THEN reads \o <<Call("mergeVList", previousList, NoStartNumber, FALSE),
                        Call("insertNode", "restoreRange", NoStartNumber, FALSE),
                        Call("vList.writeBack", "", NoStartNumber, FALSE),
                        Call("select", "restoreRange", NoStartNumber, FALSE),
                        Call("removeChild", "restoreRange", NoStartNumber, FALSE)>>
        ELSE reads


\* ------------------------------------------------------------------------
\* The dispatch of a key event to ListFeatures
\* ------------------------------------------------------------------------
\* The enabled features registered for the key, in registration order
Candidates(key) ==
    SelectSeq(ListFeatures, LAMBDA f : f \in settings.enabled /\ key \in FeatureKeys(f))

\* The feature whose predicate or handler is next
Current == Candidates(ev.key)[idx]

\* A dispatch that goes on to the next candidate after a handler has run
AfterDispatchContinue == "Evaluating"

\* Dispatch stops at the first feature whose predicate holds
AfterDispatch == "Default"

\* The keys whose default handling by the browser changes the content
ContentKeys == {"ENTER", "BACKSPACE", "DELETE", "SPACE"}

\* The keys pressed with and without Shift
ShiftKeys == {"TAB", "ENTER"}

\* A key event arrives: the editor is in one of the states the key can meet,
\* the event starts with an empty cache
KeyDown ==
    /\ phase = "Idle"
    /\ queue = <<>>
    /\ \E key \in Keys, shiftKey \in BOOLEAN :
        /\ shiftKey => key \in ShiftKeys
        /\ \E scene \in Scenes(key) :
            /\ ed' = scene
            /\ ev' = [key |-> key, shiftKey |-> shiftKey, defaultPrevented |-> FALSE,
                      alive |-> TRUE, cache |-> EmptyCache]
    /\ phase' = "Evaluating"
    /\ idx' = 1
    /\ executed' = <<>>
    /\ log' = <<>>
    /\ mutations' = 0
    /\ commits' = <<>>
    /\ UNCHANGED <<modelVars, call, settings, queue>>

\* The predicate of the next candidate is evaluated
Evaluate ==
    /\ phase = "Evaluating"
    /\ idx <= Len(Candidates(ev.key))
    /\ LET r == shouldHandleEvent(Current, ev.cache)
       IN  /\ ev' = [ev EXCEPT !.cache = r.cache]
           /\ ed' = r.ed
           /\ mutations' = r.mutations
           /\ IF r.result
              THEN phase' = "Dispatched" /\ idx' = idx
              ELSE phase' = "Evaluating" /\ idx' = idx + 1
    /\ UNCHANGED <<modelVars, call, settings, executed, log, queue, commits>>

\* No predicate held
NoMatch ==
    /\ phase = "Evaluating"
    /\ idx > Len(Candidates(ev.key))
    /\ phase' = "Default"
    /\ UNCHANGED <<modelVars, call, settings, ed, ev, idx, executed, log, queue,
                   mutations, commits>>

\* feature.handleEvent(event, editor) of the feature f runs
HandleEvent(f, handled) ==
    /\ phase = "Dispatched"
    /\ Current = f
    /\ executed' = Append(executed, f)
    /\ log' = log \o handled.calls
    /\ mutations' = mutations + Mutations(handled.calls)
    /\ ev' = [ev EXCEPT !.defaultPrevented = @ \/ handled.preventDefault,
                        !.cache = handled.cache]
    /\ ed' = [ed EXCEPT !.textBefore = handled.textBefore]
    /\ queue' = queue \o handled.tasks
    /\ idx' = idx + 1
    /\ phase' = AfterDispatch
    /\ UNCHANGED <<modelVars, call, settings, commits>>

HandleAutoBullet == HandleEvent("autoBullet", AutoBulletHandleEvent)
HandleIndentWhenTab == HandleEvent("indentWhenTab", IndentWhenTabHandleEvent)
HandleOutdentWhenShiftTab == HandleEvent("outdentWhenShiftTab", OutdentWhenShiftTabHandleEvent)
HandleOutdentWhenBackOn1stEmptyLine ==
    HandleEvent("outdentWhenBackspaceOnEmptyFirstLine", OutdentWhenBackOn1stEmptyLineHandleEvent)
HandleOutdentWhenEnterOnEmptyLine ==
    HandleEvent("outdentWhenEnterOnEmptyLine", OutdentWhenEnterOnEmptyLineHandleEvent)
HandleMergeInNewLine ==
    HandleEvent("mergeInNewLineWhenBackspaceOnFirstChar", MergeInNewLineHandleEvent)
HandleMaintainListChain == HandleEvent("maintainListChain", MaintainListChainHandleEvent)
HandleMaintainListChainWhenDelete ==
    HandleEvent("maintainListChainWhenDelete", MaintainListChainWhenDeleteHandleEvent)
HandleAutoNumberingList == HandleEvent("autoNumberingList", AutoNumberingListHandleEvent)
HandleAutoBulletList == HandleEvent("autoBulletList", AutoBulletListHandleEvent)
HandleMergeListOnBackspaceAfterList ==
    HandleEvent("mergeListOnBackspaceAfterList", MergeListOnBackspaceAfterListHandleEvent)

\* The handlers have returned: the event is over, and the browser handles the
\* key itself unless a handler prevented it
DefaultAction ==
    /\ phase = "Default"
    /\ LET calls == IF ev.defaultPrevented THEN <<>>
                    ELSE <<Call(IF ev.key \in ContentKeys THEN "browserDefault" ELSE "browser",
                                ev.key, NoStartNumber, FALSE)>>
       IN  /\ log' = log \o calls
           /\ mutations' = mutations + Mutations(calls)
    /\ ev' = [ev EXCEPT !.alive = FALSE]
    /\ phase' = "Deferred"
    /\ UNCHANGED <<modelVars, call, settings, ed, idx, executed, queue, commits>>

\* The first callback deferred with editor.runAsync runs
RunAsync ==
    /\ phase = "Deferred"
    /\ queue # <<>>
    /\ \E rangeBeforeWriteBack \in BOOLEAN :
        LET task == Head(queue)
            calls == IF task.run = "commitListChains"
                     THEN <<Call("commitListChains", "chains", task.chains.seen, FALSE)>>
                     ELSE MergeVListCalls(rangeBeforeWriteBack)
        IN  /\ log' = log \o calls
            /\ mutations' = mutations + Mutations(calls)
            /\ commits' = IF task.run = "commitListChains"
                          THEN Append(commits, [chains |-> task.chains, content |-> mutations])
                          ELSE commits
    /\ queue' = Tail(queue)
    /\ UNCHANGED <<modelVars, call, settings, ed, ev, phase, idx, executed>>

\* Nothing is deferred any more: the editor waits for the next event
EventDone ==
    /\ phase = "Deferred"
    /\ queue = <<>>
    /\ phase' = "Idle"
    /\ UNCHANGED <<modelVars, call, settings, ed, ev, idx, executed, log, queue,
                   mutations, commits>>

InitEdit ==
    /\ Document(Flat, Shape("Absent", <<>>, FALSE, FALSE), Shape("Absent", <<>>, FALSE, FALSE),
                <<Marker, Br>>)
    /\ settings \in SettingsChoices
    /\ EditorAtRest

NextEdit ==
    \/ KeyDown
    \/ Evaluate
    \/ NoMatch
    \/ HandleAutoBullet
    \/ HandleIndentWhenTab
    \/ HandleOutdentWhenShiftTab
    \/ HandleOutdentWhenBackOn1stEmptyLine
    \/ HandleOutdentWhenEnterOnEmptyLine
    \/ HandleMergeInNewLine
    \/ HandleMaintainListChain
    \/ HandleMaintainListChainWhenDelete
    \/ HandleAutoNumberingList
    \/ HandleAutoBulletList
    \/ HandleMergeListOnBackspaceAfterList
    \/ DefaultAction
    \/ RunAsync
    \/ EventDone

SpecEdit == InitEdit /\ [][NextEdit]_vars


\* ------------------------------------------------------------------------
\* Properties of the dispatch and of the list features
\* ------------------------------------------------------------------------
\* The candidates whose predicate holds in the current editor state
Matching ==
    {j \in 1..Len(Candidates(ev.key)) :
        shouldHandleEvent(Candidates(ev.key)[j], ev.cache).result}

\* C1: for every key event and every editor state at most one entry of
\* ListFeatures has its handleEvent executed, and the one that is about to
\* run is the first candidate, in registration order, whose predicate holds.
C1_AtMostOneHandler ==
    /\ Len(executed) <= 1
    /\ phase = "Dispatched" => idx \in Matching /\ \A j \in Matching : idx <= j

\* A handler has run for a key event for which the predicate of another
\* enabled feature registered for the key holds as well.
C1_Witness ==
    /\ phase = "Default"
    /\ executed = <<"indentWhenTab">>
    /\ "maintainListChain" \in settings.enabled
    /\ MaintainListChainShouldHandleEvent(ev.cache).result

ChainFeatures == {"maintainListChain", "maintainListChainWhenDelete"}
ChainHandled == executed # <<>> /\ executed[1] \in ChainFeatures
PendingCommits == SelectSeq(queue, LAMBDA t : t.run = "commitListChains")

\* C8: when MaintainListChain or MaintainListChainWhenDelete handles a key
\* event, the chains are those of the content before the key changes it
\* (they exist when the handler returns, before the default action), the
\* commit deferred with runAsync runs exactly once, it runs after the
\* key's change has been applied, and it has run when the editor is idle
\* again and accepts the next event.
C8_ChainCommitOnceAfterMutation ==
    ChainHandled =>
        /\ Len(PendingCommits) + Len(commits) = 1
        /\ \A i \in 1..Len(PendingCommits) :
              PendingCommits[i].chains = [content |-> "document", seen |-> 0]
        /\ phase = "Default" => Len(PendingCommits) = 1 /\ mutations = 0
        /\ phase = "Idle" => Len(commits) = 1 /\ queue = <<>>
        /\ \A i \in 1..Len(commits) :
              /\ commits[i].chains = [content |-> "document", seen |-> 0]
              /\ ~ev.alive
              /\ commits[i].content = IF ev.key \in ContentKeys THEN 1 ELSE 0

\* DELETE before a list was handled by MaintainListChainWhenDelete, the
\* browser has deleted, and the commit has run on the content after that.
C8_Witness ==
    /\ phase = "Idle"
    /\ executed = <<"maintainListChainWhenDelete">>
    /\ Len(commits) = 1
    /\ commits[1].content > commits[1].chains.seen

\* C9: evaluating the shouldHandleEvent of any feature leaves the document
\* content and the selection unchanged; of the event only the cache may
\* change, and no API call is made and nothing is deferred.
C9_PredicatesOnlyTouchCache ==
    [][(phase = "Evaluating" /\ idx <= Len(Candidates(ev.key))) =>
          /\ ed' = ed
          /\ mutations' = mutations
          /\ log' = log
          /\ queue' = queue
          /\ commits' = commits
          /\ UNCHANGED modelVars
          /\ ev' = [ev EXCEPT !.cache = ev'.cache]]_vars

\* The predicate of MergeListOnBackspaceAfterList has held and has stored
\* the two lists and the searcher in the cache of the event.
C9_Witness ==
    /\ phase = "Dispatched"
    /\ Current = "mergeListOnBackspaceAfterList"
    /\ ev.cache[PREVIOUS_BLOCK_CACHE_KEY] # Absent
    /\ ev.cache[NEXT_BLOCK_CACHE_KEY] # Absent
    /\ ev.cache[CONTENT_SEARCHER] # Absent


\* ------------------------------------------------------------------------
\* getListStyleType on the documents a marker is typed in
\* ------------------------------------------------------------------------
\* The keys of bulletListType, lines 84-91
BulletMarkers ==
    {<<"*">>, <<"-">>, <<"-", "-">>, <<"-", ">">>, <<"-", "-", ">">>, <<"=", ">">>,
     <<">">>, <<EmDash>>}

\* Markers of one or two digits and one of . > ) -
Separators == {".", ">", ")", "-"}
NumberMarkers ==
    {d \o <<c>> : d \in {<<"1">>, <<"3">>, <<"2">>, <<"1", "2">>}, c \in Separators}

\* The texts of the first segment of the paragraph that holds the cursor
StyleTexts == BulletMarkers \cup NumberMarkers \cup {Abc, <<"1">>, <<"1", "2", "3", ".">>}

\* Where the selection marker is: right after the text, after more text, or
\* before the text
StyleSegments(t) ==
    {<<Text(t), Marker>>, <<Text(t), Text(Abc), Marker>>, <<Marker, Text(t)>>}

\* A sibling of the block that holds the cursor: none, a paragraph, or a
\* list item with its levels
Sibling(kind, lvls) == [kind |-> kind, levels |-> lvls]
StyleSiblings ==
    {Sibling("Absent", <<>>), Sibling("Paragraph", <<>>),
     Sibling("ListItem", <<Level("OL")>>),
     Sibling("ListItem", <<[Level("OL") EXCEPT !.orderedStyleType = 3]>>),
     Sibling("ListItem", <<>>)}

\* The block group that holds the paragraph of the cursor: the document
\* itself, or a list item or a format container in the document
StyleHolders == {"Document", "ListItem", "FormatContainer"}

\* The content model: prev, then the paragraph of the cursor (in its holder),
\* then next
StyleDocument(holder, prev, next, segs) ==
    LET held == holder # "Document"
        mid == IF held THEN "item" ELSE "itemPara"
    IN
      /\ blockType =
            [n \in Nodes |->
                CASE n = "root" -> "BlockGroup"
                  [] n = "item" -> IF held THEN "BlockGroup" ELSE "Absent"
                  [] n = "itemPara" -> "Paragraph"
                  [] n = "prev" -> IF prev.kind = "ListItem" THEN "BlockGroup" ELSE prev.kind
                  [] n = "next" -> IF next.kind = "ListItem" THEN "BlockGroup" ELSE next.kind
                  [] n = "prevPara" -> IF prev.kind = "ListItem" THEN "Paragraph" ELSE "Absent"
                  [] n = "nextPara" -> IF next.kind = "ListItem" THEN "Paragraph" ELSE "Absent"
                  [] OTHER -> "Absent"]
      /\ blockGroupType =
            [n \in Nodes |->
                CASE n = "root" -> "Document"
                  [] n = "item" -> IF held THEN holder ELSE "None"
                  [] n = "prev" -> IF prev.kind = "ListItem" THEN "ListItem" ELSE "None"
                  [] n = "next" -> IF next.kind = "ListItem" THEN "ListItem" ELSE "None"
                  [] OTHER -> "None"]
      /\ blocks =
            [n \in Nodes |->
                CASE n = "root" -> Present("prev", prev) \o <<mid>> \o Present("next", next)
                  [] n = "item" -> IF held THEN <<"itemPara">> ELSE <<>>
                  [] n = "prev" -> IF prev.kind = "ListItem" THEN <<"prevPara">> ELSE <<>>
                  [] n = "next" -> IF next.kind = "ListItem" THEN <<"nextPara">> ELSE <<>>
                  [] OTHER -> <<>>]
      /\ segments =
            [n \in Nodes |->
                CASE n = "itemPara" -> segs
                  [] n = "prevPara" -> IF prev.kind = "ListItem" THEN <<Text(Abc)>> ELSE <<>>
                  [] n = "nextPara" -> IF next.kind = "ListItem" THEN <<Text(Abc)>> ELSE <<>>
                  [] n = "prev" -> IF prev.kind = "Paragraph" THEN <<Text(Abc)>> ELSE <<>>
                  [] n = "next" -> IF next.kind = "Paragraph" THEN <<Text(Abc)>> ELSE <<>>
                  [] OTHER -> <<>>]
      /\ isSelected = [n \in Nodes |-> FALSE]
      /\ levels =
            [n \in Nodes |->
                CASE n = "item" -> IF holder = "ListItem" THEN <<Level("OL")>> ELSE <<>>
                  [] n = "prev" -> prev.levels
                  [] n = "next" -> next.levels
                  [] OTHER -> <<>>]
      /\ call = NoCall

InitStyle ==
    /\ \E holder \in StyleHolders, prev \in StyleSiblings, next \in StyleSiblings,
          t \in StyleTexts :
          \E segs \in StyleSegments(t) : StyleDocument(holder, prev, next, segs)
    /\ settings = [enabled |-> AllFeatures, autoFormatList |-> FALSE]
    /\ EditorAtRest

NextStyle == GetListStyleType

SpecStyle == InitStyle /\ [][NextStyle]_vars

\* The paragraph of the cursor and the text of its first segment, when the
\* selection is a marker that follows a first segment of text
CursorParagraph == "itemPara"
CollapsedAfterText ==
    /\ SelectedParagraphs = <<CursorParagraph>>
    /\ Len(segments[CursorParagraph]) >= 2
    /\ segments[CursorParagraph][1].segmentType = "Text"
    /\ \E i \in 2..Len(segments[CursorParagraph]) :
          /\ segments[CursorParagraph][i] = Marker
          /\ \A j \in 1..Len(segments[CursorParagraph]) :
                segments[CursorParagraph][j].isSelected => j = i
TypedMarker == segments[CursorParagraph][1].text

\* C11: for each of the eight bullet markers, when the selection is a
\* collapsed marker in a paragraph whose first segment is text equal to the
\* marker, getListStyleType returns listType 'UL' with a bullet style, the
\* style of no other of the eight markers, and without an index.
C11_BulletMarkersGiveDistinctStyles ==
    (call.op = "getListStyleType" /\ CollapsedAfterText /\ TypedMarker \in BulletMarkers) =>
        /\ call.result.tag = "style"
        /\ call.result.listType = "UL"
        /\ call.result.styleType \in {BulletListType[k] : k \in DOMAIN BulletListType}
        /\ call.result.index = NoIndex
        /\ \A other \in BulletMarkers \ {TypedMarker} :
              call.result.styleType # bulletListType(other)
        /\ \E m \in BulletMarkers : call.result.styleType = bulletListType(m)

\* getListStyleType has answered for the em-dash typed in a paragraph that
\* follows a list item.
C11_Witness ==
    /\ call.op = "getListStyleType"
    /\ CollapsedAfterText
    /\ TypedMarker = <<EmDash>>
    /\ blockGroupType["prev"] = "ListItem"
    /\ call.result.listType = "UL"


\* The typed text is one or two digits and one of . > ) -
IsNumberMarker(t) ==
    /\ Len(t) \in 2..3
    /\ \A i \in 1..(Len(t) - 1) : t[i] \in Digits
    /\ t[Len(t)] \in Separators

\* The integer the digits of a number marker spell
RECURSIVE NumberOf(_)
NumberOf(t) ==
    IF t = <<>> \/ t[Len(t)] \notin Digits THEN
        IF t = <<>> THEN 0 ELSE NumberOf(SubSeq(t, 1, Len(t) - 1))
    ELSE NumberOf(SubSeq(t, 1, Len(t) - 1)) * 10 + DigitValue(t[Len(t)])

\* No block next to the paragraph of the cursor, in the group that holds
\* it, is a list item; in particular no list precedes it
NoListAmongSiblings ==
    \A i \in 1..Len(blocks[Parent(CursorParagraph)]) :
        blockGroupType[blocks[Parent(CursorParagraph)][i]] # "ListItem"

NumberMarkerTyped ==
    /\ call.op = "getListStyleType"
    /\ CollapsedAfterText
    /\ IsNumberMarker(TypedMarker)
    /\ NoListAmongSiblings

Acts(f) == phase = "Dispatched" /\ Current = f

\* The start numbers toggleNumbering is called with in a sequence of calls
StartNumbers(calls) ==
    {calls[i].num : i \in {j \in 1..Len(calls) : calls[j].api = "toggleNumbering"}}

\* What is left of a marker without its punctuation
Stripped(t) == SelectSeq(t, LAMBDA c : c \notin {"(", ")", "-", ".", ">"})
FirstItemMarker(t) == Stripped(t) \in {<<"1">>, <<"i">>, <<"a">>, <<"I">>, <<"A">>}

\* C13: in the AutoNumberingList action every marker whose content without
\* punctuation is exactly 1, i, a, I or A creates the numbered list with
\* start number 1, whether or not the previous block is a list item.
C13_FirstItemStartsAtOne ==
    [][(Acts("autoNumberingList") /\ FirstItemMarker(ed.textBefore)) =>
          StartNumbers(log') = {1}]_vars


\* The integer a text starts with, when it starts with digits
StartsWithNumber(t) == t # <<>> /\ Head(t) \in Digits
LeadingNumber(t) == NumberOf(SubSeq(t, 1, LeadingDigits(t)))
NumberNotOne(t) == StartsWithNumber(t) /\ LeadingNumber(t) # 1

\* C14 as stated: in the AutoNumberingList action a numeric marker whose
\* value is not 1 creates the numbered list with an explicit start number
\* equal to the parsed integer, also when the block before the typed text is
\* a list item.
C14_NumberAlwaysExplicit ==
    [][(Acts("autoNumberingList") /\ NumberNotOne(ed.textBefore)) =>
          StartNumbers(log') = {LeadingNumber(ed.textBefore)}]_vars

\* C14 as amended: a marker whose leading integer is not 1 creates the
\* numbered list with that integer as explicit start number when the block
\* before the typed text is not a list item, and without a start number when
\* it is a list item.
C14_NumberExplicitUnlessAfterListItem ==
    [][(Acts("autoNumberingList") /\ NumberNotOne(ed.textBefore)) =>
          StartNumbers(log') = {IF ed.previousIsLi THEN NoStartNumber
                                ELSE LeadingNumber(ed.textBefore)}]_vars

\* AutoNumberingList has run for "2)" typed after a list item, and has
\* toggled the numbering without a start number.
C14_Witness ==
    /\ phase = "Default"
    /\ executed = <<"autoNumberingList">>
    /\ ed.previousIsLi
    /\ StartNumbers(log) = {NoStartNumber}
    /\ \E i \in 1..Len(log) : log[i].text = <<"2", ")", "nbsp">>


\* ------------------------------------------------------------------------
\* Properties of IndentWhenTab and OutdentWhenShiftTab
\* ------------------------------------------------------------------------
\* A Tab key event is being handled
TabEvent == ev.key = "TAB" /\ ev.alive

\* The calls of setIndentation are all in the direction, there is one, and
\* the default handling of the key is prevented
Indents(calls, direction) ==
    /\ \E i \in 1..Len(calls) : calls[i].api = "setIndentation"
    /\ \A i \in 1..Len(calls) : calls[i].api = "setIndentation" => calls[i].arg = direction

\* The closest LI or TABLE around the cursor is a list item, and the list
\* item lies in a UL or OL
InListItemOfList == ed.cursorIn = "LI" /\ ed.listTag \in {"UL", "OL"}

\* C15 as stated: for every Tab key event IndentWhenTab's predicate holds
\* exactly when Shift is not pressed and the cursor is inside a list item,
\* OutdentWhenShiftTab's exactly when Shift is pressed and the cursor is
\* inside a list item, never both, and the action that runs requests the
\* indentation change of its direction and prevents the default.
C15_TabPredicatesInsideListItem ==
    [][TabEvent =>
          /\ IndentWhenTabShouldHandleEvent(ev.cache).result <=> (~ev.shiftKey /\ InLI(ed))
          /\ OutdentWhenShiftTabShouldHandleEvent(ev.cache).result <=> (ev.shiftKey /\ InLI(ed))
          /\ ~(/\ IndentWhenTabShouldHandleEvent(ev.cache).result
               /\ OutdentWhenShiftTabShouldHandleEvent(ev.cache).result)
          /\ Acts("indentWhenTab") => Indents(log', "Increase") /\ ev'.defaultPrevented
          /\ Acts("outdentWhenShiftTab") => Indents(log', "Decrease") /\ ev'.defaultPrevented
      ]_vars

\* C15 as amended: the two predicates hold exactly when Shift is not
\* pressed, respectively pressed, and the closest LI or TABLE around the
\* cursor is a list item that lies in a UL or OL (not when the cursor is in a
\* table nested in the list item, nor in a list item without a list); they
\* never hold together, and the action that runs requests the indentation
\* change of its direction and prevents the default.
C15_TabPredicatesInListItemOfList ==
    [][TabEvent =>
          /\ IndentWhenTabShouldHandleEvent(ev.cache).result
                <=> (~ev.shiftKey /\ InListItemOfList)
          /\ OutdentWhenShiftTabShouldHandleEvent(ev.cache).result
                <=> (ev.shiftKey /\ InListItemOfList)
          /\ ~(/\ IndentWhenTabShouldHandleEvent(ev.cache).result
               /\ OutdentWhenShiftTabShouldHandleEvent(ev.cache).result)
          /\ Acts("indentWhenTab") => Indents(log', "Increase") /\ ev'.defaultPrevented
          /\ Acts("outdentWhenShiftTab") => Indents(log', "Decrease") /\ ev'.defaultPrevented
      ]_vars

\* OutdentWhenShiftTab has run for Shift+Tab in a list item: it has asked
\* for less indentation and prevented the default.
C15_Witness ==
    /\ phase = "Default"
    /\ ev.key = "TAB"
    /\ ev.shiftKey
    /\ executed = <<"outdentWhenShiftTab">>
    /\ Indents(log, "Decrease")
    /\ ev.defaultPrevented


\* ------------------------------------------------------------------------
\* Properties of the predicates of the auto list features
\* ------------------------------------------------------------------------
SpaceEvent == ev.key = "SPACE" /\ ev.alive

AutoBulletHolds == AutoBulletShouldHandleEvent(ev.cache).result
AutoBulletListHolds == AutoBulletListShouldHandleEvent(ev.cache).result
AutoNumberingListHolds == AutoNumberingListShouldHandleEvent(ev.cache).result

\* C16 as stated: for every Space key event none of the three predicates
\* holds when the cursor is inside a list item, and AutoBullet never holds
\* together with AutoBulletList or AutoNumberingList: it needs AutoFormatList
\* off, they need it on.
C16_NoAutoListInsideListItem ==
    SpaceEvent =>
        /\ InLI(ed) => ~AutoBulletHolds /\ ~AutoBulletListHolds /\ ~AutoNumberingListHolds
        /\ ~(AutoBulletHolds /\ (AutoBulletListHolds \/ AutoNumberingListHolds))
        /\ AutoBulletHolds => ~settings.autoFormatList
        /\ (AutoBulletListHolds \/ AutoNumberingListHolds) => settings.autoFormatList

\* C16 as amended: none of the three predicates holds when the closest LI or
\* TABLE around the cursor is a list item that lies in a UL or OL (they can
\* hold in a table nested in a list item and in a list item without a
\* list); the rest as stated.
C16_NoAutoListInListItemOfList ==
    SpaceEvent =>
        /\ InListItemOfList =>
              ~AutoBulletHolds /\ ~AutoBulletListHolds /\ ~AutoNumberingListHolds
        /\ ~(AutoBulletHolds /\ (AutoBulletListHolds \/ AutoNumberingListHolds))
        /\ AutoBulletHolds => ~settings.autoFormatList
        /\ (AutoBulletListHolds \/ AutoNumberingListHolds) => settings.autoFormatList

\* Space after "1." in a list item of a list: the predicates have been
\* evaluated, none held, and no handler ran.
C16_Witness ==
    /\ phase = "Default"
    /\ ev.key = "SPACE"
    /\ InListItemOfList
    /\ ed.textBefore = <<"1", ".">>
    /\ ev.cache[GET_ELEMENT_AT_CURSOR_LI_TABLE] = "LI"
    /\ executed = <<>>


\* Space is pressed with AutoFormatList on and the cursor outside any list
\* item, and the n characters before the cursor hold no white space and
\* follow no inline element that is not text
AutoFormatOutsideList(n) ==
    /\ SpaceEvent
    /\ settings.autoFormatList
    /\ ~InLI(ed)
    /\ ~HasSpace(LastChars(ed.textBefore, n))
    /\ ~ed.nearestInline

\* The text starts with the number 1, or is one of the letters i, a, I, A
\* once ( ) - . are taken out
RecognisedAsFirstItem(t) ==
    \/ StartsWithNumber(t) /\ LeadingNumber(t) = 1
    \/ SelectSeq(t, LAMBDA c : c \notin {"(", ")", "-", "."})
          \in {<<"i">>, <<"a">>, <<"I">>, <<"A">>}

\* C17 as stated: with AutoFormatList on and the cursor outside any list,
\* the AutoBulletList / AutoNumberingList predicate holds whenever style
\* inference returns a style for the last up to 5 characters before the
\* cursor, that text has no white space and no non-text inline element
\* precedes the cursor; nothing else is needed.
C17_StyleAloneTriggers ==
    AutoFormatOutsideList(5) =>
        /\ getAutoBulletListStyle(LastChars(ed.textBefore, 5)) # 0 => AutoBulletListHolds
        /\ getAutoNumberingListStyle(LastChars(ed.textBefore, 5)) # 0 => AutoNumberingListHolds

\* C17 as amended: the predicates look at the last up to 4 characters;
\* AutoBulletList holds whenever a bullet style is inferred for them, and
\* AutoNumberingList holds whenever a numbering style is inferred and, in
\* addition, the text is recognised as a first item, or the list item before
\* the text has no stored numbering style (or there is none), or that style
\* is the inferred one.
C17_StyleTriggersUnlessOtherPreviousStyle ==
    AutoFormatOutsideList(4) =>
        LET t == LastChars(ed.textBefore, 4)
            previousStyle == IF ed.previousIsLi THEN ed.previousListType ELSE 0
        IN  /\ getAutoBulletListStyle(t) # 0 => AutoBulletListHolds
            /\ (/\ getAutoNumberingListStyle(t) # 0
                /\ \/ RecognisedAsFirstItem(t)
                   \/ previousStyle = 0
                   \/ previousStyle = getAutoNumberingListStyle(t))
                  => AutoNumberingListHolds

\* AutoNumberingList is about to run for "12-" typed after a list item whose
\* list has the style the marker has.
C17_Witness ==
    /\ Acts("autoNumberingList")
    /\ ed.textBefore = <<"1", "2", "-">>
    /\ ed.previousIsLi
    /\ ed.previousListType = getAutoNumberingListStyle(ed.textBefore)


\* The apis of the calls
Apis(calls) == {calls[i].api : i \in 1..Len(calls)}

\* C18: in the legacy AutoBullet action a marker n. n> n) n- or (n), n of 1
\* or 2 digits, creates a numbered list whose start number is n, a marker *
\* or - creates a bullet list, and in both cases the marker text is removed
\* from the content.
C18_LegacyMarkerGivesListAndIsRemoved ==
    [][Acts("autoBullet") =>
        LET marker == ed.textBefore
            calls == SubSeq(log', Len(log) + 1, Len(log'))
        IN  /\ IF marker \in {<<"*">>, <<"-">>}
               THEN /\ "toggleBullet" \in Apis(calls)
                    /\ "toggleNumbering" \notin Apis(calls)
               ELSE /\ "toggleBullet" \notin Apis(calls)
                    /\ StartNumbers(calls) = {NumberOf(marker)}
            /\ "deleteContents" \in Apis(calls)
            /\ ed'.textBefore = <<>>]_vars


\* The calls by which the code of a feature changes the document itself.
\* Left out: the browser's default handling of a key, which is not a
\* feature's change, and the formatting apis (setIndentation, toggleListType,
\* toggleBullet, toggleNumbering), whose own code may open a snapshot.
DirectMutatingApis ==
    {"insertContent", "deleteContents", "prepareAutoBullet", "vList.writeBack",
     "insertNode", "removeChild"}

\* C19: every change a list feature makes to the document, in its action or
\* in a callback deferred with runAsync, is made inside the callback of an
\* addUndoSnapshot, the non-breaking space of the auto bullet actions and
\* the merge of MergeListOnBackspaceAfterList included.
C19_EveryChangeInsideUndoSnapshot ==
    \A i \in 1..Len(log) : log[i].api \in DirectMutatingApis => log[i].undo


\* The step reads the cache of the event (cacheGetEventData) or changes it
TouchesEventCache ==
    \/ ev'.cache # ev.cache
    \/ /\ Len(log') > Len(log)
       /\ \E i \in (Len(log) + 1)..Len(log') : log'[i].api = "cacheGetEventData"

\* C20: the cache of an event (keys previousBlock, nextBlock, nextSibling)
\* is never read or written once the event has ended; in particular
\* MergeListOnBackspaceAfterList reads the lists it merges from the cache
\* only while the event whose predicate stored them is being handled.
C20_CacheOnlyTouchedWhileEventAlive ==
    [][TouchesEventCache => ev'.alive]_vars


\* The deferred pass of MergeListOnBackspaceAfterList is the next to run
MergePassRuns == phase = "Deferred" /\ queue # <<>> /\ Head(queue).run = "mergeVList"

\* The positions of the calls of an api on the element
CallsOn(calls, api, element) ==
    {i \in 1..Len(calls) : calls[i].api = api /\ calls[i].arg = element}

\* The temporary element is in the document after the calls: it was put in
\* more often than taken out
InDocument(calls, element) ==
    Cardinality(CallsOn(calls, "insertNode", element))
        > Cardinality(CallsOn(calls, "removeChild", element))

\* The cursor was put at the element while the element was in the document
\* and not moved since
CursorAtElement(calls, element) ==
    \E s \in CallsOn(calls, "select", element) :
        /\ \E i \in CallsOn(calls, "insertNode", element) :
              /\ i < s
              /\ \A r \in CallsOn(calls, "removeChild", element) : ~(i < r /\ r < s)
        /\ \A k \in (s + 1)..Len(calls) : calls[k].api # "select"

\* C21: after the deferred pass of MergeListOnBackspaceAfterList, on every
\* path through it (lists merged, or a cached list or the selection range
\* missing), the document holds no temporary element 'restoreRange', and
\* when the lists were merged the cursor is where that element was.
C21_NoRestoreRangeLeftAndCursorRestored ==
    [][MergePassRuns =>
        /\ ~InDocument(log', "restoreRange")
        /\ "mergeVList" \in Apis(SubSeq(log', Len(log) + 1, Len(log')))
              => CursorAtElement(log', "restoreRange")]_vars

\* The deferred pass has merged the lists
C21_Witness ==
    /\ phase = "Deferred"
    /\ executed = <<"mergeListOnBackspaceAfterList">>
    /\ "mergeVList" \in Apis(log)
    /\ CallsOn(log, "removeChild", "restoreRange") # {}

\* The deferred pass has run without a selection range and merged nothing
C21_WitnessNoRange ==
    /\ phase = "Deferred"
    /\ queue = <<>>
    /\ executed = <<"mergeListOnBackspaceAfterList">>
    /\ "cacheGetEventData" \in Apis(log)
    /\ "mergeVList" \notin Apis(log)


\* The closest list item before the paragraph among its siblings, if any
ListItemBefore(paragraph) ==
    LET siblings == Siblings(paragraph)
        before == {i \in 1..(PositionIn(siblings, paragraph) - 1) :
                      blockGroupType[siblings[i]] = "ListItem"}
    IN  IF before = {} THEN Undefined
        ELSE siblings[CHOOSE i \in before : \A j \in before : j <= i]

\* C22: the previous list whose style getListStyleType feeds into the
\* numbering style inference is the closest list item before the paragraph
\* of the cursor among its siblings, never one after the paragraph: the
\* answer for a number marker has the style and the index that this list
\* item gives, and those of no previous list when there is none before.
C22_PreviousListIsClosestBefore ==
    (/\ call.op = "getListStyleType"
     /\ CollapsedAfterText
     /\ IsNumberMarker(TypedMarker)
     /\ call.result.tag = "style") =>
        LET previous == ListItemBefore(CursorParagraph)
        IN  IF previous = Undefined
            THEN /\ call.result.index = NoIndex
                 /\ call.result.styleType = getNumberingListStyle(TypedMarker, 0, 0)
            ELSE /\ call.result.index = getIndex(TypedMarker)
                 /\ levels[previous] # <<>> =>
                       call.result.styleType =
                           getNumberingListStyle(TypedMarker, 0,
                                                 getPreviousListStyle(previous))


\* The calls that change the structure of a list
ListStructureApis == {"toggleListType", "vList.setIndentation", "vList.writeBack"}

\* C23: whenever the action of MergeInNewLine, OutdentWhenBackOn1stEmptyLine
\* or OutdentWhenEnterOnEmptyLine runs, it changes the list structure (soft
\* outdent, or the list toggled off) and prevents the default handling of
\* the key; in no state does the action run and do neither.
C23_ActionOutdentsAndPreventsDefault ==
    [][\A f \in {"mergeInNewLine", "outdentWhenBackOn1stEmptyLine",
                 "outdentWhenEnterOnEmptyLine"} :
          Acts(f) =>
              /\ Apis(SubSeq(log', Len(log) + 1, Len(log'))) \cap ListStructureApis # {}
              /\ ev'.defaultPrevented]_vars


\* The list items whose levels are empty; no document starts with one, so
\* these are the items deleteEmptyList has cleared
ClearedItems == {n \in Nodes : blockGroupType[n] = "ListItem" /\ levels[n] = <<>>}

\* The step calls deleteEmptyList with the context of the call before it
SameContextAgain ==
    /\ call.op = "deleteEmptyList"
    /\ call'.op = "deleteEmptyList"
    /\ call'.deleteResult = call.deleteResult
    /\ call'.insertPoint = call.insertPoint

\* C24: once deleteEmptyList has cleared the levels of a list item they stay
\* empty under every later call of deleteEmptyList and
\* setModelListStartNumber; deleteEmptyList called again with the same
\* context changes nothing, and setModelListStartNumber with that item as
\* the first selected list item returns false and writes no start number.
C24_ClearedLevelsStayEmpty ==
    [][/\ \A n \in ClearedItems : levels'[n] = <<>>
       /\ SameContextAgain => UNCHANGED modelVars
       /\ (/\ call'.op = "setModelListStartNumber"
           /\ getFirstSelectedListItem \in ClearedItems)
             => /\ call'.result = BoolResult(FALSE)
                /\ UNCHANGED modelVars]_vars

\* setModelListStartNumber has been called with a cleared list item as the
\* first selected list item
C24_Witness ==
    /\ call.op = "setModelListStartNumber"
    /\ getFirstSelectedListItem \in ClearedItems
    /\ call.result = BoolResult(FALSE)


\* A block that is neither a paragraph nor a block group (a table, a divider,
\* an entity), a paragraph without segments, or a block group without blocks
BlockWithoutContent(n) ==
    \/ blockType[n] \in {"Table", "Divider", "Entity"}
    \/ blockType[n] = "Paragraph" /\ segments[n] = <<>>
    \/ blockType[n] = "BlockGroup" /\ blocks[n] = <<>>

\* The list item holds the selection and has no previous sibling, or a
\* previous sibling that holds selection
OtherTwoConditions(I) ==
    /\ hasSelectionInBlockGroup(I)
    /\ (~HasPreviousSibling(I) \/ hasSelectionInBlock(PreviousSibling(I)))

\* C25: in the emptiness check of deleteEmptyList a next sibling that is
\* neither a paragraph nor a block group counts as empty, as do a paragraph
\* without segments and a block group without child blocks, so a list item
\* followed by such a block is collapsed when the other two conditions hold;
\* a missing next sibling never counts as empty, and the item then keeps
\* its levels.
C25_BlocksWithoutContentAreEmpty ==
    [][/\ \A n \in PresentBlocks : BlockWithoutContent(n) => isEmptyBlock(n)
       /\ ~isEmptyBlock(Undefined)
       /\ RangeDeletionInList(call') =>
            LET I == NearestListItem(call'.insertPoint)
            IN  /\ (/\ OtherTwoConditions(I)
                    /\ HasNextSibling(I)
                    /\ BlockWithoutContent(NextSibling(I))) => levels'[I] = <<>>
                /\ ~HasNextSibling(I) => levels'[I] = levels[I]]_vars

\* deleteEmptyList has collapsed a list item that is followed by a table, a
\* divider or an entity
C25_Witness ==
    /\ RangeDeletionInList(call)
    /\ LET I == NearestListItem(call.insertPoint)
       IN  /\ OtherTwoConditions(I)
           /\ HasNextSibling(I)
           /\ blockType[NextSibling(I)] \in {"Table", "Divider", "Entity"}
           /\ levels[I] = <<>>

====
